---- MODULE Spec2Model ----
(***************************************************************************)
(* A model of rizerco/graphics: the flood-fill engine                      *)
(* (src/src/color_replace.rs), the compositor and its blend functions      *)
(* (src/src/composite/), the mask operations                               *)
(* (src/src/image/mask_operations.rs) and the blend-mode names             *)
(* (src/src/blend_mode.rs).                                                *)
(*                                                                         *)
(* An image is the record [data, size, bytes_per_row] of src/src/image.rs: *)
(* data is the byte vector (a sequence of 0..255, byte offset k of the     *)
(* Vec<u8> is data[k+1]).  A u32 colour value is kept as the tuple of its  *)
(* four 8-bit digits, most significant first, so that 0xRRGGBBAA is        *)
(* <<RR, GG, BB, AA>> and 0 is <<0, 0, 0, 0>>: equality of the tuples is   *)
(* equality of the u32 values, and the masks and shifts of the source      *)
(* select the digits.                                                      *)
(***************************************************************************)
EXTENDS Integers, Sequences, FiniteSets, TLC

(***************************************************************************)
(* Bounds of the model.                                                    *)
(***************************************************************************)
\* The images given to flood_fill and flood_fill_with_reference have at most
\* MaxPixels pixels, the images given to flood_fill_in_bounds at most
\* MaxBoxPixels.
MaxPixels == 6

MaxBoxPixels == 4

----------------------------------------------------------------------------
(***************************************************************************)
(* Geometry: src/src/geometry/rect.rs, src/src/geometry/point.rs           *)
(***************************************************************************)
Point(x, y) == [x |-> x, y |-> y]

Point_zero == Point(0, 0)

Size(w, h) == [width |-> w, height |-> h]

Rect_new(x, y, width, height) == [origin |-> Point(x, y), size |-> Size(width, height)]

Min(a, b) == IF a <= b THEN a ELSE b

Max(a, b) == IF a >= b THEN a ELSE b

min_x(r) == Min(r.origin.x + r.size.width, r.origin.x)

max_x(r) == Max(r.origin.x + r.size.width, r.origin.x)

min_y(r) == Min(r.origin.y + r.size.height, r.origin.y)

max_y(r) == Max(r.origin.y + r.size.height, r.origin.y)

\* Rect::contains: both edges are inclusive.
contains(r, point) ==
    /\ point.x >= min_x(r)
    /\ point.y >= min_y(r)
    /\ point.x <= max_x(r)
    /\ point.y <= max_y(r)

None == [some |-> FALSE]

Some(v) == [some |-> TRUE, value |-> v]

\* Rect::intersection: None only when a dimension is negative.
intersection(r, other) ==
    LET lo_x == Max(min_x(r), min_x(other))
        hi_x == Min(max_x(r), max_x(other))
        lo_y == Max(min_y(r), min_y(other))
        hi_y == Min(max_y(r), max_y(other))
        width == hi_x - lo_x
        height == hi_y - lo_y
    IN  IF width < 0 \/ height < 0
        THEN None
        ELSE Some(Rect_new(lo_x, lo_y, width, height))

----------------------------------------------------------------------------
(***************************************************************************)
(* Images and colours: src/src/image.rs, src/src/color.rs                  *)
(***************************************************************************)
Image_new(data, size, bytes_per_row) ==
    [data |-> data, size |-> size, bytes_per_row |-> bytes_per_row]

\* Image::empty: all bytes zero, rows of 4 * width bytes.
Image_empty(size) ==
    Image_new([k \in 1..(size.width * 4 * size.height) |-> 0], size, size.width * 4)

Color(r, g, b, a) == [red |-> r, green |-> g, blue |-> b, alpha |-> a]

\* Color::CLEAR
CLEAR == Color(0, 0, 0, 0)

\* Color::as_rgba_u32: red is the most significant byte.
as_rgba_u32(c) == <<c.red, c.green, c.blue, c.alpha>>

\* unsigned_int_color: the four bytes at the pixel's offset packed into a
\* u32, or 0 when the buffer is too short for them.
unsigned_int_color(point, vertex_buffer, bytes_per_row) ==
    LET offset == bytes_per_row * point.y + point.x * 4
    IN  IF Len(vertex_buffer) < offset + 4
        THEN <<0, 0, 0, 0>>
        ELSE <<vertex_buffer[offset + 1], vertex_buffer[offset + 2],
               vertex_buffer[offset + 3], vertex_buffer[offset + 4]>>

----------------------------------------------------------------------------
(***************************************************************************)
(* Flood fill: src/src/color_replace.rs                                    *)
(***************************************************************************)
\* The four byte stores of lines 150-153 (156-159 for the secondary buffer).
\* A store past the end of the vector panics; the stores before it have
\* been done.
store_color(buffer, byte_index, new_color) ==
    [k \in 1..Len(buffer) |->
        IF k - 1 >= byte_index /\ k - 1 <= byte_index + 3
        THEN new_color[k - byte_index]
        ELSE buffer[k]]

store_panics(buffer, byte_index) == byte_index + 3 >= Len(buffer)

\* Lines 130-136: walk up the column while the colour matches; the value
\* is the y the loop ends with.
RECURSIVE walk_up(_, _, _, _, _, _, _)
walk_up(x, y, color, vertex_buffer, bytes_per_row, lo_y, target_color) ==
    IF y >= lo_y /\ color = target_color
    THEN LET y1 == y - 1
             color1 == IF y1 >= lo_y
                       THEN unsigned_int_color(Point(x, y1), vertex_buffer, bytes_per_row)
                       ELSE color
         IN  walk_up(x, y1, color1, vertex_buffer, bytes_per_row, lo_y, target_color)
    ELSE y

\* Line 162: the west neighbour is looked at to the right of the box's edge.
west_in_bounds(x, lo_x) == x > lo_x

\* Line 178: the east neighbour is looked at left of the box's last column.
east_in_bounds(x, hi_x) == x < hi_x - 1

\* Lines 170 and 186: a neighbour is pushed when it has the target colour
\* and no span is open on its side.
pushes_seed(span, color, target_color) == ~span /\ color = target_color

\* span_after without its second branch: an open span is never closed.
span_after_never_closed(span, color, target_color) ==
    IF ~span /\ color = target_color THEN TRUE ELSE span

\* Lines 170-175 and 186-191: the span flag after looking at a neighbour.
span_after(span, color, target_color) ==
    IF ~span /\ color = target_color THEN TRUE
    ELSE IF span /\ color # target_color THEN FALSE
    ELSE span

\* extends_affected with the negations lost: a pixel counts when a span is
\* open.
extends_affected_open(span_left, span_right) == span_right \/ span_left

\* Line 194: the pixel extends the affected extent unless both spans are open.
extends_affected(span_left, span_right) == ~span_right \/ ~span_left

\* affected_region with the extent taken as exclusive.
affected_region_exclusive(lo_x, lo_y, hi_x, hi_y) ==
    Rect_new(lo_x, lo_y, hi_x - lo_x, hi_y - lo_y)

\* Lines 209-214: the affected extent as a rectangle.
affected_region(lo_x, lo_y, hi_x, hi_y) ==
    Rect_new(lo_x, lo_y, hi_x - lo_x + 1, hi_y - lo_y + 1)

\* secondary_mismatch comparing the sizes alone.
secondary_mismatch_size_only(secondary_image, image) ==
    secondary_image.size # image.size

\* Lines 96-97: the secondary image must have the primary's size and stride.
secondary_mismatch(secondary_image, image) ==
    \/ secondary_image.size # image.size
    \/ secondary_image.bytes_per_row # image.bytes_per_row

\* Lines 146-205: one turn of the loop down the column, at the pixel (x, y)
\* of the target colour.  cx holds the values that are fixed during the
\* call, st the buffers, the seed stack and the affected extent.  The value
\* holds st after the turn, the colour and the span flags the turn ends with,
\* and whether a store was out of range.
fill_pixel(cx, st, x, y, color, span_left, span_right) ==
    LET byte_index == cx.bytes_per_row * y + x * 4
        data1 == store_color(st.data, byte_index, cx.new_color)
        sdata1 == IF cx.has_secondary_image /\ ~store_panics(st.data, byte_index)
                  THEN store_color(st.sdata, byte_index, cx.new_color)
                  ELSE st.sdata
        panics == \/ store_panics(st.data, byte_index)
                  \/ cx.has_secondary_image /\ store_panics(st.sdata, byte_index)
        \* west
        west_point == Point(x - 1, y)
        check_west == west_in_bounds(x, cx.min_x)
        color_w == IF check_west
                   THEN unsigned_int_color(west_point, data1, cx.bytes_per_row)
                   ELSE color
        push_west == check_west /\ pushes_seed(span_left, color_w, cx.target_color)
        span_left1 == IF check_west
                      THEN span_after(span_left, color_w, cx.target_color)
                      ELSE span_left
        points1 == IF push_west THEN Append(st.points, west_point) ELSE st.points
        \* east
        east_point == Point(x + 1, y)
        check_east == east_in_bounds(x, cx.max_x)
        color_e == IF check_east
                   THEN unsigned_int_color(east_point, data1, cx.bytes_per_row)
                   ELSE color_w
        push_east == check_east /\ pushes_seed(span_right, color_e, cx.target_color)
        span_right1 == IF check_east
                       THEN span_after(span_right, color_e, cx.target_color)
                       ELSE span_right
        points2 == IF push_east THEN Append(points1, east_point) ELSE points1
        extend == extends_affected(span_left1, span_right1)
        y1 == y + 1
        color1 == IF y1 < cx.max_y
                  THEN unsigned_int_color(Point(x, y1), data1, cx.bytes_per_row)
                  ELSE color_e
        st1 == [data |-> data1,
                sdata |-> sdata1,
                points |-> points2,
                affected_min_x |-> IF extend THEN Min(st.affected_min_x, x) ELSE st.affected_min_x,
                affected_max_x |-> IF extend THEN Max(st.affected_max_x, x) ELSE st.affected_max_x,
                affected_min_y |-> IF extend THEN Min(st.affected_min_y, y) ELSE st.affected_min_y,
                affected_max_y |-> IF extend THEN Max(st.affected_max_y, y) ELSE st.affected_max_y,
                panicked |-> FALSE,
                stores |-> Append(st.stores, byte_index)]
    IN  IF panics
        THEN [st |-> [st EXCEPT !.data = data1, !.sdata = sdata1, !.panicked = TRUE],
              color |-> color, span_left |-> span_left, span_right |-> span_right]
        ELSE [st |-> st1, color |-> color1,
              span_left |-> span_left1, span_right |-> span_right1]

\* Line 145: the condition of the loop down the column.
fills(cx, y, color) == y < cx.max_y /\ color = cx.target_color /\ cx.new_color # color

\* Lines 145-206: walk down the column, recolouring and pushing the seeds of
\* the neighbouring columns.
RECURSIVE fill_down(_, _, _, _, _, _, _)
fill_down(cx, st, x, y, color, span_left, span_right) ==
    IF ~fills(cx, y, color)
    THEN st
    ELSE
    LET turn == fill_pixel(cx, st, x, y, color, span_left, span_right)
    IN  IF turn.st.panicked
        THEN turn.st
        ELSE fill_down(cx, turn.st, x, y + 1, turn.color, turn.span_left, turn.span_right)

\* Lines 125-206: one turn of the loop over the seed stack: pop a seed, walk
\* up, fill down.
fill_iteration(cx, st) ==
    LET current_point == st.points[Len(st.points)]
        popped == [st EXCEPT !.points = SubSeq(st.points, 1, Len(st.points) - 1)]
        color0 == unsigned_int_color(current_point, st.data, cx.bytes_per_row)
        top_y == walk_up(current_point.x, current_point.y, color0, st.data,
                         cx.bytes_per_row, cx.min_y, cx.target_color) + 1
        color == unsigned_int_color(Point(current_point.x, top_y), st.data, cx.bytes_per_row)
    IN  fill_down(cx, popped, current_point.x, top_y, color, FALSE, FALSE)

\* Lines 124-207: pop a seed, walk up, fill down, until the stack is empty.
RECURSIVE fill_loop(_, _)
fill_loop(cx, st) ==
    IF st.panicked \/ st.points = <<>>
    THEN st
    ELSE fill_loop(cx, fill_iteration(cx, st))

Err(image, secondary_image) ==
    [status |-> "Err", image |-> image, secondary_image |-> secondary_image,
     rect |-> Rect_new(0, 0, 0, 0), stores |-> <<>>]

\* Lines 83-89 and 115-116: the values that stay fixed during the fill, box
\* being the bounding box clamped to the image.
fill_context(image, start, fill_color, secondary_image, box) ==
    [bytes_per_row |-> image.bytes_per_row,
     min_x |-> min_x(box), max_x |-> max_x(box),
     min_y |-> min_y(box), max_y |-> max_y(box),
     target_color |-> unsigned_int_color(start, image.data, image.bytes_per_row),
     new_color |-> as_rgba_u32(fill_color),
     has_secondary_image |-> secondary_image.some]

\* Lines 88-119: the buffers, the affected extent and the seed stack before
\* the loop.
fill_start(image, start, secondary_image) ==
    [data |-> image.data,
     sdata |-> IF secondary_image.some THEN secondary_image.value.data ELSE <<>>,
     points |-> <<start>>,
     affected_min_x |-> start.x, affected_max_x |-> start.x,
     affected_min_y |-> start.y, affected_max_y |-> start.y,
     panicked |-> FALSE,
     stores |-> <<>>]

\* flood_fill_in_bounds(image, start, fill_color, secondary_image, bounding_box).
\* secondary_image and bounding_box are options (None or Some(v)).  The value
\* is the outcome of the call: its status ("Ok", "Err", or "Panic" for an
\* index out of range), the two images as the call leaves them, the
\* returned rectangle and the byte offsets stored to, in order.
flood_fill_in_bounds(image, start, fill_color, secondary_image, bounding_box) ==
    LET image_bounds == [origin |-> Point_zero, size |-> image.size]
        box0 == IF bounding_box.some THEN bounding_box.value ELSE image_bounds
        clamped == intersection(box0, image_bounds)
    IN
    IF ~clamped.some THEN Err(image, secondary_image)
    ELSE IF ~contains(clamped.value, start) THEN Err(image, secondary_image)
    ELSE IF secondary_image.some /\ secondary_mismatch(secondary_image.value, image)
    THEN Err(image, secondary_image)
    ELSE
    LET st == fill_loop(fill_context(image, start, fill_color, secondary_image,
                                     clamped.value),
                        fill_start(image, start, secondary_image))
    IN  [status |-> IF st.panicked THEN "Panic" ELSE "Ok",
         image |-> [image EXCEPT !.data = st.data],
         secondary_image |-> IF secondary_image.some
                             THEN Some([secondary_image.value EXCEPT !.data = st.sdata])
                             ELSE None,
         rect |-> affected_region(st.affected_min_x, st.affected_min_y,
                                  st.affected_max_x, st.affected_max_y),
         stores |-> st.stores]

\* flood_fill
flood_fill(image, start, fill_color) ==
    flood_fill_in_bounds(image, start, fill_color, None, None)

\* flood_fill_with_reference: the reference is cloned and the clone dropped,
\* so the outcome's image is the reference as it was and its secondary_image
\* is the target.
flood_fill_with_reference(target_image, reference_image, start, fill_color) ==
    LET r == flood_fill_in_bounds(reference_image, start, fill_color,
                                  Some(target_image), None)
    IN  [r EXCEPT !.image = reference_image]

----------------------------------------------------------------------------
(***************************************************************************)
(* Blend modes: src/src/blend_mode.rs.  A variant is the string of its     *)
(* name.                                                                   *)
(***************************************************************************)
BlendMode ==
    { "Addition", "Color", "ColorBurn", "ColorDodge", "Darken", "Difference",
      "Divide", "Exclusion", "HardLight", "Hue", "Lighten", "Luminosity",
      "Multiply", "Normal", "Overlay", "PassThrough", "Saturation", "Screen",
      "SoftLight", "Subtract", "DestinationIn", "DestinationOut" }

\* The discriminants of the enum (`mode as u32`).
discriminant(mode) ==
    CASE mode = "Addition" -> 16
      [] mode = "Color" -> 14
      [] mode = "ColorBurn" -> 7
      [] mode = "ColorDodge" -> 6
      [] mode = "Darken" -> 4
      [] mode = "Difference" -> 10
      [] mode = "Divide" -> 18
      [] mode = "Exclusion" -> 11
      [] mode = "HardLight" -> 8
      [] mode = "Hue" -> 12
      [] mode = "Lighten" -> 5
      [] mode = "Luminosity" -> 15
      [] mode = "Multiply" -> 1
      [] mode = "Normal" -> 0
      [] mode = "Overlay" -> 3
      [] mode = "PassThrough" -> 19
      [] mode = "Saturation" -> 13
      [] mode = "Screen" -> 2
      [] mode = "SoftLight" -> 9
      [] mode = "Subtract" -> 17
      [] mode = "DestinationIn" -> 20
      [] mode = "DestinationOut" -> 21

\* from_primitive with the range check off by one: 22 is taken for the last
\* code.
from_primitive_one_more(value) ==
    IF value \in 0..22
    THEN Some(CHOOSE m \in BlendMode :
                 discriminant(m) = IF value = 22 THEN 21 ELSE value)
    ELSE None

\* BlendMode::from_primitive
from_primitive(value) ==
    CASE value = 0 -> Some("Normal")
      [] value = 1 -> Some("Multiply")
      [] value = 2 -> Some("Screen")
      [] value = 3 -> Some("Overlay")
      [] value = 4 -> Some("Darken")
      [] value = 5 -> Some("Lighten")
      [] value = 6 -> Some("ColorDodge")
      [] value = 7 -> Some("ColorBurn")
      [] value = 8 -> Some("HardLight")
      [] value = 9 -> Some("SoftLight")
      [] value = 10 -> Some("Difference")
      [] value = 11 -> Some("Exclusion")
      [] value = 12 -> Some("Hue")
      [] value = 13 -> Some("Saturation")
      [] value = 14 -> Some("Color")
      [] value = 15 -> Some("Luminosity")
      [] value = 16 -> Some("Addition")
      [] value = 17 -> Some("Subtract")
      [] value = 18 -> Some("Divide")
      [] value = 19 -> Some("PassThrough")
      [] value = 20 -> Some("DestinationIn")
      [] value = 21 -> Some("DestinationOut")
      [] OTHER -> None

\* BlendMode::as_str
as_str(mode) ==
    CASE mode = "Addition" -> "addition"
      [] mode = "Color" -> "color"
      [] mode = "ColorBurn" -> "color-burn"
      [] mode = "ColorDodge" -> "color-dodge"
      [] mode = "Darken" -> "darken"
      [] mode = "DestinationIn" -> "destination-in"
      [] mode = "DestinationOut" -> "destination-out"
      [] mode = "Difference" -> "difference"
      [] mode = "Divide" -> "divide"
      [] mode = "Exclusion" -> "exclusion"
      [] mode = "HardLight" -> "hard-light"
      [] mode = "Hue" -> "hue"
      [] mode = "Lighten" -> "lighten"
      [] mode = "Luminosity" -> "luminosity"
      [] mode = "Multiply" -> "multiply"
      [] mode = "Normal" -> "normal"
      [] mode = "Overlay" -> "overlay"
      [] mode = "PassThrough" -> "pass-through"
      [] mode = "Saturation" -> "saturation"
      [] mode = "Screen" -> "screen"
      [] mode = "SoftLight" -> "soft-light"
      [] mode = "Subtract" -> "subtract"

\* BlendMode::from_str: the arms of the match, in order.  There is none for
\* ColorDodge, and the snake-case spelling of PassThrough is "pass_trough".
from_str(string) ==
    CASE string = "addition" -> Some("Addition")
      [] string = "color" -> Some("Color")
      [] string \in {"colorBurn", "color_burn", "color-burn"} -> Some("ColorBurn")
      [] string = "darken" -> Some("Darken")
      [] string \in {"destinationIn", "destination_in", "destination-in"} -> Some("DestinationIn")
      [] string \in {"destinationOut", "destination_out", "destination-out"} -> Some("DestinationOut")
      [] string = "difference" -> Some("Difference")
      [] string = "divide" -> Some("Divide")
      [] string = "exclusion" -> Some("Exclusion")
      [] string \in {"hardLight", "hard_light", "hard-light"} -> Some("HardLight")
      [] string = "hue" -> Some("Hue")
      [] string = "lighten" -> Some("Lighten")
      [] string = "luminosity" -> Some("Luminosity")
      [] string = "multiply" -> Some("Multiply")
      [] string = "normal" -> Some("Normal")
      [] string = "overlay" -> Some("Overlay")
      [] string \in {"passThrough", "pass_trough", "pass-through"} -> Some("PassThrough")
      [] string = "saturation" -> Some("Saturation")
      [] string = "screen" -> Some("Screen")
      [] string \in {"softLight", "soft_light", "soft-light"} -> Some("SoftLight")
      [] string = "subtract" -> Some("Subtract")
      [] OTHER -> None

\* BlendMode::is_porter_duff
is_porter_duff(mode) == mode \in {"DestinationIn", "DestinationOut"}

----------------------------------------------------------------------------
(***************************************************************************)
(* f32 arithmetic.  A value is the exact fraction [n, d] in lowest terms   *)
(* with d > 0: the rounding of the f32 operations is left out, the         *)
(* rounding of a value to an integer (f32::round, `as u8`) is not.  The    *)
(* quotient of a division by zero has d = 0.                               *)
(***************************************************************************)
abs(a) == IF a < 0 THEN -a ELSE a

RECURSIVE gcd(_, _)
gcd(a, b) == IF b = 0 THEN a ELSE gcd(b, a % b)

f32(n, d) ==
    LET g == gcd(abs(n), d)
    IN  [n |-> n \div g, d |-> d \div g]

f32_mul(a, b) ==
    LET g1 == gcd(abs(a.n), b.d)
        g2 == gcd(abs(b.n), a.d)
    IN  [n |-> (a.n \div g1) * (b.n \div g2), d |-> (a.d \div g2) * (b.d \div g1)]

f32_add(a, b) ==
    LET g == gcd(a.d, b.d)
    IN  f32(a.n * (b.d \div g) + b.n * (a.d \div g), (a.d \div g) * b.d)

f32_sub(a, b) == f32_add(a, [n |-> -b.n, d |-> b.d])

\* a / b.  A division by zero gives an infinity, kept as [n |-> 1, d |-> 0]
\* or [n |-> -1, d |-> 0], or (0 / 0) a NaN, kept as [n |-> 0, d |-> 0].
f32_div(a, b) ==
    IF b.n = 0
    THEN [n |-> IF a.n > 0 THEN 1 ELSE IF a.n < 0 THEN -1 ELSE 0, d |-> 0]
    ELSE IF b.n > 0
    THEN f32_mul(a, [n |-> b.d, d |-> b.n])
    ELSE f32_mul(a, [n |-> -b.d, d |-> -b.n])

f32_lt(a, b) == a.n * b.d < b.n * a.d

\* f32::min and f32::max (no operand is a NaN where the model uses them)
f32_min(a, b) == IF f32_lt(b, a) THEN b ELSE a

f32_max(a, b) == IF f32_lt(a, b) THEN b ELSE a

\* f32::abs
f32_abs(a) == [n |-> abs(a.n), d |-> a.d]

\* f32::clamp(0.0, 1.0)
f32_clamp(a) == f32_max(f32(0, 1), f32_min(a, f32(1, 1)))

\* f32::round: to the nearest integer, halves away from zero.
f32_round(a) ==
    IF a.n >= 0
    THEN (2 * a.n + a.d) \div (2 * a.d)
    ELSE -((2 * (-a.n) + a.d) \div (2 * a.d))

\* `as u8` that keeps the low byte of the integer.
as_u8_wrapping(v) == v % 256

\* `as u8`: the cast saturates.
as_u8(v) == IF v < 0 THEN 0 ELSE IF v > 255 THEN 255 ELSE v

\* Point<i32> into Point<f32>
Point_f32(point) == Point(f32(point.x, 1), f32(point.y, 1))

\* `as i32` in the place of Point<f32>::rounded: the fraction is dropped.
rounded_toward_zero(point) ==
    Point(IF point.x.n >= 0 THEN point.x.n \div point.x.d ELSE -((-point.x.n) \div point.x.d),
          IF point.y.n >= 0 THEN point.y.n \div point.y.d ELSE -((-point.y.n) \div point.y.d))

\* Point<f32>::rounded
rounded(point) == Point(f32_round(point.x), f32_round(point.y))

----------------------------------------------------------------------------
(***************************************************************************)
(* The compositor: src/src/composite/                                      *)
(***************************************************************************)
\* RgbaColor::from with 256 in the place of u8::MAX.
RgbaColor_from_256(color) ==
    [red |-> f32(color.red, 256), green |-> f32(color.green, 256),
     blue |-> f32(color.blue, 256), alpha |-> f32(color.alpha, 256)]

\* RgbaColor::from(&Color): each channel over u8::MAX.
RgbaColor_from(color) ==
    [red |-> f32(color.red, 255), green |-> f32(color.green, 255),
     blue |-> f32(color.blue, 255), alpha |-> f32(color.alpha, 255)]

\* RgbColor::from_rgba_color
from_rgba_color(color) == [red |-> color.red, green |-> color.green, blue |-> color.blue]

\* From<RgbColor> for RgbaColor: alpha 1.0.
RgbaColor_from_rgb(color) ==
    [red |-> color.red, green |-> color.green, blue |-> color.blue, alpha |-> f32(1, 1)]

\* RgbaColor::to_color
to_color(c) ==
    Color(as_u8(f32_round(f32_mul(c.red, f32(255, 1)))),
          as_u8(f32_round(f32_mul(c.green, f32(255, 1)))),
          as_u8(f32_round(f32_mul(c.blue, f32(255, 1)))),
          as_u8(f32_round(f32_mul(c.alpha, f32(255, 1)))))

\* unpremultiply left out: the colour stays scaled with the alpha.
unpremultiply_skipped(c) == c

\* RgbColor::to_color: the alpha is u8::MAX.
RgbColor_to_color(c) ==
    Color(as_u8(f32_round(f32_mul(c.red, f32(255, 1)))),
          as_u8(f32_round(f32_mul(c.green, f32(255, 1)))),
          as_u8(f32_round(f32_mul(c.blue, f32(255, 1)))),
          255)

\* RgbaColor::unpremultiply
unpremultiply(c) ==
    IF f32_lt(c.alpha, f32(1, 1)) /\ f32_lt(f32(0, 1), c.alpha)
    THEN [red |-> f32_div(c.red, c.alpha), green |-> f32_div(c.green, c.alpha),
          blue |-> f32_div(c.blue, c.alpha), alpha |-> c.alpha]
    ELSE c

\* Mul<f32> for RgbaColor
RgbaColor_mul(c, rhs) ==
    [red |-> f32_mul(c.red, rhs), green |-> f32_mul(c.green, rhs),
     blue |-> f32_mul(c.blue, rhs), alpha |-> f32_mul(c.alpha, rhs)]

\* Add for RgbaColor
RgbaColor_add(c, rhs) ==
    [red |-> f32_add(c.red, rhs.red), green |-> f32_add(c.green, rhs.green),
     blue |-> f32_add(c.blue, rhs.blue), alpha |-> f32_add(c.alpha, rhs.alpha)]

\* blend::destination_in
destination_in(color, blend_color, opacity) ==
    [color EXCEPT !.alpha = f32_mul(color.alpha, f32_mul(blend_color.alpha, opacity))]

\* destination_out on premultiplied channels: the colour is scaled with the
\* alpha.
destination_out_premultiplied(color, blend_color, opacity) ==
    RgbaColor_mul(color, f32_mul(opacity, f32_sub(f32(1, 1), blend_color.alpha)))

\* blend::destination_out
destination_out(color, blend_color, opacity) ==
    [color EXCEPT !.alpha =
        f32_mul(color.alpha, f32_mul(opacity, f32_sub(f32(1, 1), blend_color.alpha)))]

----------------------------------------------------------------------------
(***************************************************************************)
(* The separable blend functions: src/src/composite/blend/mod.rs and       *)
(* src/src/composite/blend/rgb_color.rs.  A function of the source that    *)
(* changes `color` in place is the operator that gives the new colour.     *)
(***************************************************************************)
RgbColor_new(red, green, blue) == [red |-> red, green |-> green, blue |-> blue]

\* RgbColor::add
RgbColor_add(c, other_color) ==
    RgbColor_new(f32_add(c.red, other_color.red), f32_add(c.green, other_color.green),
                 f32_add(c.blue, other_color.blue))

\* RgbColor::subtract
RgbColor_subtract(c, other_color) ==
    RgbColor_new(f32_sub(c.red, other_color.red), f32_sub(c.green, other_color.green),
                 f32_sub(c.blue, other_color.blue))

\* RgbColor::multiply
RgbColor_multiply(c, other_color) ==
    RgbColor_new(f32_mul(c.red, other_color.red), f32_mul(c.green, other_color.green),
                 f32_mul(c.blue, other_color.blue))

\* Mul<f32> for RgbColor
RgbColor_mul(c, rhs) ==
    RgbColor_new(f32_mul(c.red, rhs), f32_mul(c.green, rhs), f32_mul(c.blue, rhs))

\* RgbColor::clamp
RgbColor_clamp(c) == RgbColor_new(f32_clamp(c.red), f32_clamp(c.green), f32_clamp(c.blue))

\* RgbColor::abs
RgbColor_abs(c) == RgbColor_new(f32_abs(c.red), f32_abs(c.green), f32_abs(c.blue))

\* blend::addition
addition(color, blend_color) == RgbColor_clamp(RgbColor_add(color, blend_color))

\* color_burn_value: the value returned and the divisor of the division it
\* evaluates, if it evaluates one.
color_burn_value_run(base, blend_value) ==
    IF base = f32(1, 1)
    THEN [value |-> base, divisor |-> None]
    ELSE IF blend_value = f32(0, 1)
    THEN [value |-> blend_value, divisor |-> None]
    ELSE [value |-> f32_max(f32_sub(f32(1, 1),
                                    f32_div(f32_sub(f32(1, 1), base), blend_value)),
                            f32(0, 1)),
          divisor |-> Some(blend_value)]

color_burn_value(base, blend_value) == color_burn_value_run(base, blend_value).value

\* blend::color_burn
color_burn(color, blend_color) ==
    RgbColor_new(color_burn_value(color.red, blend_color.red),
                 color_burn_value(color.green, blend_color.green),
                 color_burn_value(color.blue, blend_color.blue))

\* color_dodge_value, as color_burn_value_run.
color_dodge_value_run(base, blend_value) ==
    IF ~f32_lt(blend_value, f32(1, 1))
    THEN [value |-> f32(1, 1), divisor |-> None]
    ELSE [value |-> f32_min(f32_div(base, f32_sub(f32(1, 1), blend_value)), f32(1, 1)),
          divisor |-> Some(f32_sub(f32(1, 1), blend_value))]

color_dodge_value(base, blend_value) == color_dodge_value_run(base, blend_value).value

\* blend::color_dodge
color_dodge(color, blend_color) ==
    RgbColor_new(color_dodge_value(color.red, blend_color.red),
                 color_dodge_value(color.green, blend_color.green),
                 color_dodge_value(color.blue, blend_color.blue))

darken_value(base, blend_value) == f32_min(blend_value, base)

\* blend::darken
darken(color, blend_color) ==
    RgbColor_new(darken_value(color.red, blend_color.red),
                 darken_value(color.green, blend_color.green),
                 darken_value(color.blue, blend_color.blue))

\* blend::difference
difference(color, blend_color) == RgbColor_abs(RgbColor_subtract(color, blend_color))

\* divide_value, as color_burn_value_run.  No branch looks at blend == 0.0.
divide_value_run(base, blend_value) ==
    IF blend_value = f32(1, 1)
    THEN [value |-> blend_value, divisor |-> None]
    ELSE IF base = f32(0, 1)
    THEN [value |-> f32(0, 1), divisor |-> None]
    ELSE [value |-> f32_min(f32_div(base, blend_value), f32(1, 1)),
          divisor |-> Some(blend_value)]

divide_value(base, blend_value) == divide_value_run(base, blend_value).value

\* blend::divide
divide(color, blend_color) ==
    RgbColor_new(divide_value(color.red, blend_color.red),
                 divide_value(color.green, blend_color.green),
                 divide_value(color.blue, blend_color.blue))

\* blend::exclusion: base + blend - base * blend * 2.0
exclusion(color, blend_color) ==
    RgbColor_subtract(RgbColor_add(color, blend_color),
                      RgbColor_mul(RgbColor_multiply(color, blend_color), f32(2, 1)))

overlay_value(base, blend_value) ==
    IF f32_lt(base, f32(1, 2))
    THEN f32_mul(f32_mul(f32(2, 1), base), blend_value)
    ELSE f32_sub(f32(1, 1),
                 f32_mul(f32_mul(f32(2, 1), f32_sub(f32(1, 1), base)),
                         f32_sub(f32(1, 1), blend_value)))

\* blend::hard_light: overlay with the operands exchanged.
hard_light(color, blend_color) ==
    RgbColor_new(overlay_value(blend_color.red, color.red),
                 overlay_value(blend_color.green, color.green),
                 overlay_value(blend_color.blue, color.blue))

lighten_value(base, blend_value) == f32_max(blend_value, base)

\* blend::lighten
lighten(color, blend_color) ==
    RgbColor_new(lighten_value(color.red, blend_color.red),
                 lighten_value(color.green, blend_color.green),
                 lighten_value(color.blue, blend_color.blue))

\* blend::multiply
multiply(color, blend_color) == RgbColor_multiply(color, blend_color)

\* blend::overlay
overlay(color, blend_color) ==
    RgbColor_new(overlay_value(color.red, blend_color.red),
                 overlay_value(color.green, blend_color.green),
                 overlay_value(color.blue, blend_color.blue))

screen_value(base, blend_value) ==
    f32_sub(f32(1, 1), f32_mul(f32_sub(f32(1, 1), base), f32_sub(f32(1, 1), blend_value)))

\* blend::screen
screen(color, blend_color) ==
    RgbColor_new(screen_value(color.red, blend_color.red),
                 screen_value(color.green, blend_color.green),
                 screen_value(color.blue, blend_color.blue))

\* blend::subtract
subtract(color, blend_color) == RgbColor_clamp(RgbColor_subtract(color, blend_color))

\* GAMMA_VALUES: 0.3, 0.59 and 0.11.
GAMMA_VALUES == RgbColor_new(f32(3, 10), f32(59, 100), f32(11, 100))

calculate_luminance(color) ==
    f32_add(f32_add(f32_mul(GAMMA_VALUES.red, color.red),
                    f32_mul(GAMMA_VALUES.green, color.green)),
            f32_mul(GAMMA_VALUES.blue, color.blue))

\* One channel of clip_color's first branch:
\* luminance + ((v - luminance) * luminance) / (luminance - n).
clip_low(v, luminance, n) ==
    f32_add(luminance, f32_div(f32_mul(f32_sub(v, luminance), luminance),
                               f32_sub(luminance, n)))

\* One channel of clip_color's second branch:
\* luminance + ((v - luminance) * (1.0 - luminance)) / (x - luminance).
clip_high(v, luminance, x) ==
    f32_add(luminance, f32_div(f32_mul(f32_sub(v, luminance),
                                       f32_sub(f32(1, 1), luminance)),
                               f32_sub(x, luminance)))

\* clip_color's first branch, n being the least channel of the colour
\* clip_color is given.
clip_color_low(color, luminance, n) ==
    IF f32_lt(n, f32(0, 1))
    THEN RgbColor_new(clip_low(color.red, luminance, n),
                      clip_low(color.green, luminance, n),
                      clip_low(color.blue, luminance, n))
    ELSE color

\* clip_color's second branch, x being the greatest channel of the colour
\* clip_color is given.
clip_color_high(color, luminance, x) ==
    IF f32_lt(f32(1, 1), x)
    THEN RgbColor_new(clip_high(color.red, luminance, x),
                      clip_high(color.green, luminance, x),
                      clip_high(color.blue, luminance, x))
    ELSE color

\* clip_color: luminance, n and x are taken before either branch; the
\* second branch works on the colour the first one leaves.
clip_color_with(color, luminance) ==
    clip_color_high(
        clip_color_low(color, luminance,
                       f32_min(f32_min(color.red, color.green), color.blue)),
        luminance,
        f32_max(f32_max(color.red, color.green), color.blue))

clip_color(color) == clip_color_with(color, calculate_luminance(color))

set_luminance_by(color, delta) ==
    clip_color(RgbColor_new(f32_add(color.red, delta), f32_add(color.green, delta),
                            f32_add(color.blue, delta)))

set_luminance(color, luminance) ==
    set_luminance_by(color, f32_sub(luminance, calculate_luminance(color)))

calculate_saturation(color) ==
    f32_sub(f32_max(f32_max(color.red, color.green), color.blue),
            f32_min(f32_min(color.red, color.green), color.blue))

\* The three `if` chains of set_saturation: a channel whose rounded value is
\* the rounded maximum gets new_max, else one whose rounded value is the
\* rounded middle gets new_mid, else new_min = 0.0.
set_channel(rounded_channel, rounded_max, rounded_mid, new_max, new_mid) ==
    IF rounded_channel = rounded_max
    THEN new_max
    ELSE IF rounded_channel = rounded_mid
    THEN new_mid
    ELSE f32(0, 1)

set_channels(color, rounded_max, rounded_mid, new_max, new_mid) ==
    RgbColor_new(
        set_channel(f32_round(f32_mul(color.red, f32(255, 1))),
                    rounded_max, rounded_mid, new_max, new_mid),
        set_channel(f32_round(f32_mul(color.green, f32(255, 1))),
                    rounded_max, rounded_mid, new_max, new_mid),
        set_channel(f32_round(f32_mul(color.blue, f32(255, 1))),
                    rounded_max, rounded_mid, new_max, new_mid))

\* set_saturation_of with the middle channel scaled from zero instead of
\* from the minimum.
set_saturation_of_unshifted(color, saturation, max_value, min_value, mid_value) ==
    set_channels(color,
                 f32_round(f32_mul(max_value, f32(255, 1))),
                 f32_round(f32_mul(mid_value, f32(255, 1))),
                 IF f32_lt(min_value, max_value) THEN saturation ELSE f32(0, 1),
                 IF f32_lt(min_value, max_value)
                 THEN f32_div(f32_mul(mid_value, saturation),
                              f32_sub(max_value, min_value))
                 ELSE f32(0, 1))

\* Lines 62-82 of set_saturation, its max_value, min_value and mid_value
\* being given.
set_saturation_of(color, saturation, max_value, min_value, mid_value) ==
    set_channels(color,
                 f32_round(f32_mul(max_value, f32(255, 1))),
                 f32_round(f32_mul(mid_value, f32(255, 1))),
                 IF f32_lt(min_value, max_value) THEN saturation ELSE f32(0, 1),
                 IF f32_lt(min_value, max_value)
                 THEN f32_div(f32_mul(f32_sub(mid_value, min_value), saturation),
                              f32_sub(max_value, min_value))
                 ELSE f32(0, 1))

set_saturation_between(color, saturation, max_value, min_value) ==
    set_saturation_of(color, saturation, max_value, min_value,
                      f32_sub(f32_add(f32_add(color.red, color.green), color.blue),
                              f32_add(max_value, min_value)))

set_saturation(color, saturation) ==
    set_saturation_between(color, saturation,
                           f32_max(color.red, f32_max(color.green, color.blue)),
                           f32_min(color.red, f32_min(color.green, color.blue)))

\* blend::color
color(base_color, blend_color) == set_luminance(blend_color, calculate_luminance(base_color))

\* blend::hue
hue(base_color, blend_color) ==
    set_luminance(set_saturation(blend_color, calculate_saturation(base_color)),
                  calculate_luminance(base_color))

\* blend::luminosity
luminosity(base_color, blend_color) ==
    set_luminance(base_color, calculate_luminance(blend_color))

\* blend::saturation
saturation(base_color, blend_color) ==
    set_luminance(set_saturation(base_color, calculate_saturation(blend_color)),
                  calculate_luminance(base_color))

\* f32::sqrt, where the root is a fraction: of the channel values k / 255
\* above 0.25 that is 1.0 alone, and the model draws with SoftLight only
\* over base channels that are 1.0 or at most 0.25.
f32_sqrt(a) ==
    [n |-> CHOOSE r \in 0..a.n : r * r = a.n, d |-> CHOOSE r \in 1..a.d : r * r = a.d]

soft_light_component(base) ==
    IF ~f32_lt(f32(1, 4), base)
    THEN f32_mul(f32_add(f32_mul(f32_sub(f32_mul(f32(16, 1), base), f32(12, 1)), base),
                         f32(4, 1)),
                 base)
    ELSE f32_sqrt(base)

soft_light_value(base, blend_value) ==
    IF ~f32_lt(f32(1, 2), blend_value)
    THEN f32_sub(base,
                 f32_mul(f32_mul(f32_sub(f32(1, 1), f32_mul(f32(2, 1), blend_value)), base),
                         f32_sub(f32(1, 1), base)))
    ELSE f32_add(base,
                 f32_mul(f32_sub(f32_mul(f32(2, 1), blend_value), f32(1, 1)),
                         f32_sub(soft_light_component(base), base)))

\* blend::soft_light
soft_light(base_color, blend_color) ==
    RgbColor_new(soft_light_value(base_color.red, blend_color.red),
                 soft_light_value(base_color.green, blend_color.green),
                 soft_light_value(base_color.blue, blend_color.blue))

\* Layer::new: the default blend mode is Normal, the opacity 1.0.
Layer_new(layer_image, position) ==
    [image |-> layer_image, position |-> position,
     blend_mode |-> "Normal", opacity |-> f32(1, 1)]

\* Lines 108-132: the match on the blend mode, for the modes that work on
\* base_rgb (all but DestinationIn and DestinationOut).
blended_rgb(base_rgb, blend_rgb, blend_mode) ==
    CASE blend_mode = "Addition" -> addition(base_rgb, blend_rgb)
      [] blend_mode = "Color" -> color(base_rgb, blend_rgb)
      [] blend_mode = "ColorBurn" -> color_burn(base_rgb, blend_rgb)
      [] blend_mode = "ColorDodge" -> color_dodge(base_rgb, blend_rgb)
      [] blend_mode = "Darken" -> darken(base_rgb, blend_rgb)
      [] blend_mode = "Difference" -> difference(base_rgb, blend_rgb)
      [] blend_mode = "Divide" -> divide(base_rgb, blend_rgb)
      [] blend_mode = "Exclusion" -> exclusion(base_rgb, blend_rgb)
      [] blend_mode = "HardLight" -> hard_light(base_rgb, blend_rgb)
      [] blend_mode = "Hue" -> hue(base_rgb, blend_rgb)
      [] blend_mode = "Lighten" -> lighten(base_rgb, blend_rgb)
      [] blend_mode = "Luminosity" -> luminosity(base_rgb, blend_rgb)
      [] blend_mode = "Multiply" -> multiply(base_rgb, blend_rgb)
      [] blend_mode \in {"Normal", "PassThrough"} -> blend_rgb
      [] blend_mode = "Overlay" -> overlay(base_rgb, blend_rgb)
      [] blend_mode = "Saturation" -> saturation(base_rgb, blend_rgb)
      [] blend_mode = "Screen" -> screen(base_rgb, blend_rgb)
      [] blend_mode = "SoftLight" -> soft_light(base_rgb, blend_rgb)
      [] blend_mode = "Subtract" -> subtract(base_rgb, blend_rgb)

\* source_over with line 153 adding the base colour scaled by base_alpha
\* alone.
source_over_additive(base_rgba, blend_rgba, base_rgb, blend_alpha, base_alpha) ==
    unpremultiply(
        RgbaColor_add(
            RgbaColor_mul(
                RgbaColor_add(
                    RgbaColor_mul([blend_rgba EXCEPT !.alpha = f32(1, 1)],
                                  f32_sub(f32(1, 1), base_alpha)),
                    RgbaColor_mul(RgbaColor_from_rgb(base_rgb), base_alpha)),
                blend_alpha),
            RgbaColor_mul([base_rgba EXCEPT !.alpha = f32(1, 1)], base_alpha)))

\* Lines 143-156 of blend_colors: the colour of a mode that is not
\* Porter-Duff.  base_rgba and blend_rgba are the colours of line 103 and
\* 104, base_rgb the colour the match leaves.
source_over(base_rgba, blend_rgba, base_rgb, blend_alpha, base_alpha) ==
    unpremultiply(
        RgbaColor_add(
            RgbaColor_mul(
                RgbaColor_add(
                    RgbaColor_mul([blend_rgba EXCEPT !.alpha = f32(1, 1)],
                                  f32_sub(f32(1, 1), base_alpha)),
                    RgbaColor_mul(RgbaColor_from_rgb(base_rgb), base_alpha)),
                blend_alpha),
            RgbaColor_mul([base_rgba EXCEPT !.alpha = f32(1, 1)],
                          f32_mul(base_alpha, f32_sub(f32(1, 1), blend_alpha)))))

\* Lines 103-157 of blend_colors: `output`.
blend_output(base_rgba, blend_rgba, blend_mode, opacity) ==
    CASE blend_mode = "DestinationIn" -> destination_in(base_rgba, blend_rgba, opacity)
      [] blend_mode = "DestinationOut" -> destination_out(base_rgba, blend_rgba, opacity)
      [] ~is_porter_duff(blend_mode) ->
            source_over(base_rgba, blend_rgba,
                        blended_rgb(from_rgba_color(base_rgba), from_rgba_color(blend_rgba),
                                    blend_mode),
                        f32_mul(opacity, blend_rgba.alpha), base_rgba.alpha)

\* blend_colors: base_color is the parameter `color` of the source, and the
\* value is the colour the call leaves in it.
blend_colors(base_color, blend_color, blend_mode, opacity) ==
    IF base_color.alpha = 0 /\ blend_color.alpha = 0
    THEN base_color
    ELSE to_color(blend_output(RgbaColor_from(base_color), RgbaColor_from(blend_color),
                               blend_mode, opacity))

\* The colour of the four bytes at a byte offset (From<[u8; 4]> for Color).
color_at(data, start) ==
    Color(data[start + 1], data[start + 2], data[start + 3], data[start + 4])

\* Lines 89-92: the four bytes of the blended colour are stored at
\* data[start .. start + 4].
store_pixel(data, start, c) ==
    SubSeq(data, 1, start) \o <<c.red, c.green, c.blue, c.alpha>>
        \o SubSeq(data, start + 5, Len(data))

\* Lines 65-94: the rows y of the overlap and, in a row, the byte offsets x
\* of its pixels, in steps of 4.  cx holds the values computed before the
\* loop.  The slices taken at lines 72 and 77 are in range when both
\* buffers hold bytes_per_row * height bytes and bytes_per_row >= 4 * width.
RECURSIVE draw_rows(_, _, _, _)
draw_rows(cx, data, y, x) ==
    IF y >= cx.required_height
    THEN data
    ELSE IF x >= cx.required_width * 4
    THEN draw_rows(cx, data, y + 1, 0)
    ELSE
    LET offset == (y + cx.y_offset) * cx.layer.image.bytes_per_row
        target_offset == (cx.target_y_offset + y) * cx.bytes_per_row + cx.start_x * 4
        blend_color == color_at(cx.layer.image.data, offset + x + cx.x_offset)
        base_color == color_at(data, target_offset + x)
        blended == blend_colors(base_color, blend_color,
                                cx.layer.blend_mode, cx.layer.opacity)
    IN  draw_rows(cx, store_pixel(data, target_offset + x, blended), y, x + 4)

\* draw_layer_over_image reading every row of the layer image from its
\* first byte, whatever the location.
draw_layer_over_image_unshifted(target, layer) ==
    LET location == rounded(layer.position)
        start_x == IF location.x < 0 THEN 0 ELSE location.x
        end_x0 == layer.image.size.width + location.x
        end_x == Min(target.size.width, end_x0)
        start_y == IF location.y < 0 THEN 0 ELSE location.y
        end_y0 == layer.image.size.height + location.y
        end_y == Min(target.size.height, end_y0)
        cx == [layer |-> layer,
               bytes_per_row |-> target.bytes_per_row,
               start_x |-> start_x,
               required_width |-> end_x - start_x,
               required_height |-> end_y - start_y,
               target_y_offset |-> IF location.y < 0 THEN 0 ELSE location.y,
               x_offset |-> 0,
               y_offset |-> IF location.y < 0 THEN abs(location.y) ELSE 0]
    IN  IF \/ start_x >= target.size.width
           \/ end_x0 <= 0
           \/ start_y >= target.size.height
           \/ end_y0 <= 0
        THEN target
        ELSE [target EXCEPT !.data = draw_rows(cx, target.data, 0, 0)]

\* draw_layer_over_image: the value is the image after the call.
draw_layer_over_image(target, layer) ==
    LET location == rounded(layer.position)
        start_x == IF location.x < 0 THEN 0 ELSE location.x
        end_x0 == layer.image.size.width + location.x
        end_x == Min(target.size.width, end_x0)
        start_y == IF location.y < 0 THEN 0 ELSE location.y
        end_y0 == layer.image.size.height + location.y
        end_y == Min(target.size.height, end_y0)
        cx == [layer |-> layer,
               bytes_per_row |-> target.bytes_per_row,
               start_x |-> start_x,
               required_width |-> end_x - start_x,
               required_height |-> end_y - start_y,
               target_y_offset |-> IF location.y < 0 THEN 0 ELSE location.y,
               x_offset |-> IF location.x < 0 THEN abs(location.x) * 4 ELSE 0,
               y_offset |-> IF location.y < 0 THEN abs(location.y) ELSE 0]
    IN  IF \/ start_x >= target.size.width
           \/ end_x0 <= 0
           \/ start_y >= target.size.height
           \/ end_y0 <= 0
        THEN target
        ELSE [target EXCEPT !.data = draw_rows(cx, target.data, 0, 0)]

\* Operation::new
Operation_new(layers, size) == [layers |-> layers, size |-> size, should_premultiply |-> FALSE]

\* The layers drawn from the last to the first.
RECURSIVE composite_layers_reversed(_, _, _)
composite_layers_reversed(output, layers, i) ==
    IF i > Len(layers)
    THEN output
    ELSE draw_layer_over_image(composite_layers_reversed(output, layers, i + 1), layers[i])

\* Lines 15-17 of composite: the layers from the i-th on are drawn over
\* output, in the order of the vector.
RECURSIVE composite_layers(_, _, _)
composite_layers(output, layers, i) ==
    IF i > Len(layers)
    THEN output
    ELSE composite_layers(draw_layer_over_image(output, layers[i]), layers, i + 1)

\* composite storing premultiplied colour bytes when the operation asks
\* for them.
composite_premultiplied(operation) ==
    LET output == composite_layers(Image_empty(operation.size), operation.layers, 1)
    IN  IF operation.should_premultiply
        THEN [output EXCEPT !.data =
                 [k \in 1..Len(output.data) |->
                     IF k % 4 = 0
                     THEN output.data[k]
                     ELSE f32_round(f32(output.data[k] * output.data[k + 4 - (k % 4)], 255))]]
        ELSE output

\* composite
composite(operation) == composite_layers(Image_empty(operation.size), operation.layers, 1)

\* From<Size<i32>> for Size<u32>: a negative dimension is negated.
Size_u32(size) == Size(abs(size.width), abs(size.height))

\* `v as u32` followed by min(_, limit) in image::imageops::crop: a negative
\* v wraps to 2^32 + v, above every limit.
min_as_u32(v, limit) == IF v < 0 THEN limit ELSE Min(v, limit)

\* Image::crop_with_offset.  The value is [ok, image]: whether the call
\* returns Ok, and the image as the call leaves it.  to_image_buffer takes
\* the bytes as rows of 4 * width bytes whatever bytes_per_row is, and fails
\* on fewer than 4 * width * height bytes; imageops::crop clamps the
\* rectangle to the buffer; from_rgba_image fails on an empty result.
crop_with_offset(self, size, offset) ==
    IF size = self.size /\ offset = Point_zero
    THEN [ok |-> TRUE, image |-> self]
    ELSE IF Len(self.data) < 4 * self.size.width * self.size.height
    THEN [ok |-> FALSE, image |-> self]
    ELSE
    LET x == min_as_u32(offset.x, self.size.width)
        y == min_as_u32(offset.y, self.size.height)
        height == Min(size.height, self.size.height - y)
        width == Min(size.width, self.size.width - x)
    IN  IF width = 0 \/ height = 0
        THEN [ok |-> FALSE, image |-> self]
        ELSE [ok |-> TRUE,
              image |-> Image_new(
                  [k \in 1..(4 * width * height) |->
                      LET py == (k - 1) \div (4 * width)
                          px == ((k - 1) % (4 * width)) \div 4
                      IN  self.data[4 * ((y + py) * self.size.width + x + px)
                                    + ((k - 1) % 4) + 1]],
                  Size(width, height), 4 * width)]

\* A mask: its image and its bounding box (src/src/mask.rs).
Mask(mask_image, bounding_box) == [image |-> mask_image, bounding_box |-> bounding_box]

\* delete_pixels with the mask's layer at (0, 0).
delete_pixels_at_zero(image, mask) ==
    composite(Operation_new(
        <<Layer_new(image, Point_f32(Point_zero)),
          [Layer_new(mask.image, Point_f32(Point_zero))
              EXCEPT !.blend_mode = "DestinationOut"]>>,
        image.size))

\* delete_pixels: the value is the image the call leaves in `image`.
delete_pixels(image, mask) ==
    composite(Operation_new(
        <<Layer_new(image, Point_f32(Point_zero)),
          [Layer_new(mask.image, Point_f32(mask.bounding_box.origin))
              EXCEPT !.blend_mode = "DestinationOut"]>>,
        image.size))

\* Image::subimage_masked: [ok, image], image being the new image.
subimage_masked(self, mask) ==
    LET cropped == crop_with_offset(self, Size_u32(mask.bounding_box.size),
                                    mask.bounding_box.origin)
        layer == [Layer_new(mask.image, Point_f32(Point_zero))
                     EXCEPT !.blend_mode = "DestinationIn"]
    IN  IF ~cropped.ok
        THEN cropped
        ELSE [ok |-> TRUE, image |-> draw_layer_over_image(cropped.image, layer)]

\* Lines 241-250 of flood_fill_with_mask: the mask is erased from a clone
\* of the image, the clone is drawn over the filled image `result`, and the
\* value, the new image, is assigned to *image.
erase_with_mask(image, result, mask) ==
    LET layer == [Layer_new(mask.image, Point_f32(mask.bounding_box.origin))
                     EXCEPT !.blend_mode = "DestinationOut"]
        image_with_mask_erased == draw_layer_over_image(image, layer)
    IN  draw_layer_over_image(result,
                              Layer_new(image_with_mask_erased, Point_f32(Point_zero)))

\* Lines 251-255 of flood_fill_with_mask, after subimage_masked: on its
\* error the image is as it was, else the subimage is drawn over it.
draw_subimage(image, filled, subimage, mask) ==
    IF ~subimage.ok
    THEN Err(image, None)
    ELSE [filled EXCEPT !.image =
             draw_layer_over_image(image,
                 Layer_new(subimage.image, Point_f32(mask.bounding_box.origin)))]

\* Lines 240-256 of flood_fill_with_mask: what follows the fill, whose
\* outcome is `filled`.  An error or a panic of the fill leaves the caller's
\* image as it was: the fill works on a clone.
after_fill(image, filled, fill_color, mask) ==
    IF filled.status # "Ok"
    THEN [filled EXCEPT !.image = image]
    ELSE IF fill_color.alpha = 0
    THEN [filled EXCEPT !.image = erase_with_mask(image, filled.image, mask)]
    ELSE draw_subimage(image, filled, subimage_masked(filled.image, mask), mask)

\* flood_fill_with_mask (src/src/color_replace.rs)
flood_fill_with_mask(image, start, fill_color, mask) ==
    after_fill(image,
               flood_fill_in_bounds(image, start, fill_color, None,
                                    Some(mask.bounding_box)),
               fill_color, mask)

----------------------------------------------------------------------------
(***************************************************************************)
(* Pixel replacement and sampling: src/src/image.rs                        *)
(***************************************************************************)
\* The row of other_image that row y of the overlap is copied from.
overlay_y_unshifted(location, y) == y

\* Lines 538-542 of draw_image_over: overlay_y.
overlay_y(location, y) == IF location.y < 0 THEN y - location.y ELSE y

\* Line 543 of draw_image_over: overlay_x.
overlay_x(location) == IF location.x < 0 THEN -location.x ELSE 0

\* Lines 537-551 of draw_image_over: the rows y of the overlap and, in a
\* row, the bytes x of its required_width pixels; each byte of self is
\* assigned the byte of other_image.  cx holds the values computed before
\* the loop.
RECURSIVE copy_rows(_, _, _, _)
copy_rows(cx, data, y, x) ==
    IF y >= cx.required_height
    THEN data
    ELSE IF x >= cx.required_width * 4
    THEN copy_rows(cx, data, y + 1, 0)
    ELSE
    LET offset == overlay_y(cx.location, y) * cx.other_image.bytes_per_row
                      + overlay_x(cx.location) * 4
        target_offset == (cx.target_y_offset + y) * cx.bytes_per_row + cx.start_x * 4
    IN  copy_rows(cx,
                  [data EXCEPT ![target_offset + x + 1] =
                                   cx.other_image.data[offset + x + 1]],
                  y, x + 1)

\* Image::draw_image_over: the value is `self` after the call.
draw_image_over(self, other_image, location) ==
    LET start_x == IF location.x < 0 THEN 0 ELSE location.x
        end_x0 == other_image.size.width + location.x
        end_x == Min(self.size.width, end_x0)
        start_y == IF location.y < 0 THEN 0 ELSE location.y
        end_y0 == other_image.size.height + location.y
        end_y == Min(self.size.height, end_y0)
        cx == [other_image |-> other_image,
               location |-> location,
               bytes_per_row |-> self.bytes_per_row,
               start_x |-> start_x,
               required_width |-> end_x - start_x,
               required_height |-> end_y - start_y,
               target_y_offset |-> IF location.y < 0 THEN 0 ELSE location.y]
    IN  IF \/ start_x >= self.size.width
           \/ end_x0 <= 0
           \/ start_y >= self.size.height
           \/ end_y0 <= 0
        THEN self
        ELSE [self EXCEPT !.data = copy_rows(cx, self.data, 0, 0)]

\* Image::pixel_color: None outside the rectangle of the image's size,
\* whose far edges Rect::contains takes in, and when the buffer is too short
\* for the four bytes at the offset.
pixel_color(self, location) ==
    LET bounding_box == [origin |-> Point_zero, size |-> self.size]
        offset == self.bytes_per_row * location.y + location.x * 4
    IN  IF ~contains(bounding_box, location)
        THEN None
        ELSE IF Len(self.data) < offset + 4
        THEN None
        ELSE Some(Color(self.data[offset + 1], self.data[offset + 2],
                        self.data[offset + 3], self.data[offset + 4]))

----------------------------------------------------------------------------
(***************************************************************************)
(* The state: the caller's image, the caller's second image (the secondary *)
(* image of flood_fill_in_bounds, the target of flood_fill_with_reference) *)
(* and the record of the last call: its arguments, the images before it    *)
(* and its outcome.                                                        *)
(***************************************************************************)
VARIABLES image, secondary, call, blend

vars == <<image, secondary, call, blend>>

\* The colours of the pixels of the input images, as byte quadruples.
RED == <<255, 0, 0, 255>>

ZERO == <<0, 0, 0, 0>>

Palette == {RED, ZERO}

\* The fill colours: one of each palette colour and one that no pixel has.
CYAN == Color(0, 255, 255, 255)

FillColors == {Color(255, 0, 0, 255), CLEAR, CYAN}

\* The image whose pixel (x, y) is pixels[y * width + x + 1], with rows of
\* bytes_per_row bytes, the padding bytes being zero.
ImageOf(pixels, size, bytes_per_row) ==
    Image_new([k \in 1..(bytes_per_row * size.height) |->
                  LET y == (k - 1) \div bytes_per_row
                      b == (k - 1) % bytes_per_row
                  IN  IF b < 4 * size.width
                      THEN pixels[y * size.width + (b \div 4) + 1][(b % 4) + 1]
                      ELSE 0],
              size, bytes_per_row)

Sizes(n) == {sz \in {Size(w, h) : w \in 1..n, h \in 1..n} :
                sz.width * sz.height <= n}

\* Rows are stored without padding or with one pixel of padding.
ImagesOfSize(sz) ==
    {ImageOf(pixels, sz, bpr) :
        pixels \in [1..(sz.width * sz.height) -> Palette],
        bpr \in {4 * sz.width, 4 * sz.width + 4}}

Images(n) == UNION {ImagesOfSize(sz) : sz \in Sizes(n)}

\* The start points: every pixel and a ring around the image.
Starts(img) == {Point(x, y) : x \in -1..img.size.width, y \in -1..img.size.height}

Solid(c, size, bytes_per_row) ==
    ImageOf([k \in 1..(size.width * size.height) |-> c], size, bytes_per_row)

\* The second images offered with an image: of the same shape (blank, or
\* red throughout), one column wider, and of a longer stride.
SameShape(img) == {Solid(c, img.size, img.bytes_per_row) : c \in Palette}

OtherShape(img) ==
    { Solid(ZERO, Size(img.size.width + 1, img.size.height), img.bytes_per_row + 4),
      Solid(ZERO, img.size, img.bytes_per_row + 4) }

Secondaries(img) == SameShape(img) \cup OtherShape(img)

\* The bounding boxes: along an axis of length n a box that covers the
\* image, one on each part of it, one of no extent, one of negative extent,
\* one that touches the image at each edge and one apart from it on each
\* side, as <<origin, size>>.
Extents(n) ==
    { <<-1, n + 2>>, <<0, 1>>, <<1, n - 1>>, <<1, 0>>, <<n, -n>>,
      <<n, 1>>, <<n + 1, 1>>, <<-1, 1>>, <<-2, 1>> }

Boxes(img) ==
    LET w == img.size.width
        h == img.size.height
    IN  { Rect_new(ex[1], 0, ex[2], h) : ex \in Extents(w) }
        \cup { Rect_new(0, ey[1], w, ey[2]) : ey \in Extents(h) }
        \cup { Rect_new(1, 1, w - 1, h - 1), Rect_new(0, 0, 1, 1),
               Rect_new(w, h, 1, 1), Rect_new(-1, -1, 1, 1) }

\* The bounding box and secondary image of a call of flood_fill_in_bounds:
\* every box without a secondary image, and every secondary image with the
\* whole image and with its first column as the box.
BoundsArgs(img) ==
    { <<Some(box), None>> : box \in Boxes(img) }
    \cup { <<Some(box), Some(s)>> :
              box \in {Rect_new(0, 0, img.size.width, img.size.height),
                       Rect_new(0, 0, 1, img.size.height)},
              s \in Secondaries(img) }

NoCall ==
    [op |-> "none", start |-> Point_zero, fill_color |-> CLEAR,
     bounding_box |-> None, before |-> Image_empty(Size(0, 0)),
     before_secondary |-> None, status |-> "none",
     rect |-> Rect_new(0, 0, 0, 0), stores |-> <<>>]

NoBlend == [op |-> "none"]

Init ==
    /\ image \in Images(MaxPixels)
    /\ secondary = None
    /\ call = NoCall
    /\ blend = NoBlend

\* The caller's state after a call with outcome r.
Called(op, start, fill_color, bounding_box, sec, r) ==
    /\ image' = r.image
    /\ secondary' = r.secondary_image
    /\ call' = [op |-> op, start |-> start, fill_color |-> fill_color,
                bounding_box |-> bounding_box, before |-> image,
                before_secondary |-> sec, status |-> r.status,
                rect |-> r.rect, stores |-> r.stores]
    /\ UNCHANGED blend

FloodFill ==
    /\ call.op = "none"
    /\ \E start \in Starts(image), fill_color \in FillColors :
          Called("flood_fill", start, fill_color, None, None,
                 flood_fill(image, start, fill_color))

FloodFillInBounds ==
    /\ call.op = "none"
    /\ \E start \in Starts(image), fill_color \in FillColors, a \in BoundsArgs(image) :
          Called("flood_fill_in_bounds", start, fill_color, a[1], a[2],
                 flood_fill_in_bounds(image, start, fill_color, a[2], a[1]))

FloodFillWithReference ==
    /\ call.op = "none"
    /\ \E start \in Starts(image), fill_color \in FillColors,
          target \in Secondaries(image) :
          Called("flood_fill_with_reference", start, fill_color, None, Some(target),
                 flood_fill_with_reference(target, image, start, fill_color))

\* The calls of the public functions that take no mask.
Next ==
    \/ FloodFill
    \/ FloodFillWithReference

Spec == Init /\ [][Next]_vars

\* The calls that take a bounding box or a secondary image.
InitBounds ==
    /\ image \in Images(MaxBoxPixels)
    /\ secondary = None
    /\ call = NoCall
    /\ blend = NoBlend

NextBounds ==
    \/ FloodFillInBounds
    \/ FloodFillWithReference

SpecBounds == InitBounds /\ [][NextBounds]_vars

\* The masked calls: the images have at most MaxMaskPixels pixels, some of
\* them half transparent.
MaxMaskPixels == 3

HALF == <<0, 0, 255, 128>>

WHITE == <<255, 255, 255, 255>>

MaskPalette == {RED, ZERO, HALF}

MaskedImages(n) ==
    UNION { {ImageOf(pixels, sz, bpr) :
                pixels \in [1..(sz.width * sz.height) -> MaskPalette],
                bpr \in {4 * sz.width, 4 * sz.width + 4}} : sz \in Sizes(n) }

\* The bounding boxes of the masks: the whole image, its first pixel, its
\* last pixel, and a box of two pixels that overhangs the image on the left
\* and one that overhangs it on the right.
MaskBoxes(img) ==
    LET w == img.size.width
        h == img.size.height
    IN  { Rect_new(0, 0, w, h), Rect_new(0, 0, 1, 1), Rect_new(w - 1, h - 1, 1, 1),
          Rect_new(-1, 0, 2, 1), Rect_new(w - 1, h - 1, 2, 1) }

\* A mask's image has the size of its bounding box; each of its pixels is
\* opaque or fully transparent.
Masks(img) ==
    UNION { {Mask(ImageOf(pixels, box.size, 4 * box.size.width), box) :
                pixels \in [1..(box.size.width * box.size.height) -> {WHITE, ZERO}]} :
            box \in MaskBoxes(img) }

\* The start points: every pixel and the column right of the image.
MaskStarts(img) ==
    {Point(x, y) : x \in 0..img.size.width, y \in 0..(img.size.height - 1)}

\* The fill colours: two of alpha 0, and two opaque ones.
MaskFillColors == {CLEAR, Color(255, 0, 0, 0), CYAN, Color(255, 0, 0, 255)}

InitMask ==
    /\ image \in MaskedImages(MaxMaskPixels)
    /\ secondary = None
    /\ call = NoCall
    /\ blend = NoBlend

\* call.bounding_box is the box the fill is given: the mask's.
FloodFillWithMask ==
    /\ call.op = "none"
    /\ \E start \in MaskStarts(image), fill_color \in MaskFillColors,
          mask \in Masks(image) :
          \E r \in {flood_fill_with_mask(image, start, fill_color, mask)} :
              /\ image' = r.image
              /\ call' = [op |-> "flood_fill_with_mask", start |-> start,
                          fill_color |-> fill_color,
                          bounding_box |-> Some(mask.bounding_box),
                          mask |-> mask, before |-> image,
                          before_secondary |-> secondary, status |-> r.status,
                          rect |-> r.rect, stores |-> r.stores]
    /\ UNCHANGED <<secondary, blend>>

NextMask == FloodFillWithMask

SpecMask == InitMask /\ [][NextMask]_vars

\* The blend-mode names and numbers.  blend is the record of the last
\* conversion: the mode, string or number it was given and its result.
MaxPrimitive == 23

\* The strings parsed: the names as_str gives, their camel-case and
\* snake-case spellings, and strings that are no name.
BlendStrings ==
    {as_str(m) : m \in BlendMode}
    \cup { "colorBurn", "color_burn", "colorDodge", "color_dodge",
           "destinationIn", "destination_in", "destinationOut", "destination_out",
           "hardLight", "hard_light", "passThrough", "pass_through", "pass_trough",
           "softLight", "soft_light" }
    \cup { "", "Normal", "NORMAL", "normal ", "colour", "destination" }

Conversion(op, mode, string, value, result) ==
    [op |-> op, mode |-> mode, string |-> string, value |-> value, result |-> result]

AsStr ==
    /\ \E m \in BlendMode :
          blend' = Conversion("as_str", Some(m), Some(as_str(m)), None, None)
    /\ UNCHANGED <<image, secondary, call>>

\* from_str of a string of the caller's.
FromStr ==
    /\ \E s \in BlendStrings :
          blend' = Conversion("from_str", None, Some(s), None, from_str(s))
    /\ UNCHANGED <<image, secondary, call>>

\* from_str of the string as_str has just given.
FromStrOfAsStr ==
    /\ blend.op = "as_str"
    /\ blend' = Conversion("from_str", blend.mode, blend.string, None,
                           from_str(blend.string.value))
    /\ UNCHANGED <<image, secondary, call>>

AsU32 ==
    /\ \E m \in BlendMode :
          blend' = Conversion("as_u32", Some(m), None, Some(discriminant(m)), None)
    /\ UNCHANGED <<image, secondary, call>>

FromPrimitive ==
    /\ \E v \in 0..MaxPrimitive :
          blend' = Conversion("from_primitive", None, None, Some(v), from_primitive(v))
    /\ UNCHANGED <<image, secondary, call>>

\* from_primitive of the number the cast has just given.
FromPrimitiveOfAsU32 ==
    /\ blend.op = "as_u32"
    /\ blend' = Conversion("from_primitive", blend.mode, None, blend.value,
                           from_primitive(blend.value.value))
    /\ UNCHANGED <<image, secondary, call>>

InitBlendMode ==
    /\ image = Image_empty(Size(0, 0))
    /\ secondary = None
    /\ call = NoCall
    /\ blend = NoBlend

NextBlendMode ==
    \/ AsStr
    \/ FromStr
    \/ FromStrOfAsStr
    \/ AsU32
    \/ FromPrimitive
    \/ FromPrimitiveOfAsU32

SpecBlendMode == InitBlendMode /\ [][NextBlendMode]_vars


----------------------------------------------------------------------------
(***************************************************************************)
(* The guarded divisions of the separable blend functions: one call of     *)
(* divide_value, color_dodge_value or color_burn_value per behaviour, on   *)
(* the channel values blend_colors gives them, a byte divided by 255.      *)
(***************************************************************************)
ChannelValues == {f32(k, 255) : k \in 0..255}

ValueCall(op, base, blend_value, run) ==
    [op |-> op, base |-> base, blend_value |-> blend_value,
     result |-> run.value, divisor |-> run.divisor]

DivideValue ==
    /\ blend = NoBlend
    /\ \E base \in ChannelValues, blend_value \in ChannelValues :
          blend' = ValueCall("divide_value", base, blend_value,
                             divide_value_run(base, blend_value))
    /\ UNCHANGED <<image, secondary, call>>

ColorDodgeValue ==
    /\ blend = NoBlend
    /\ \E base \in ChannelValues, blend_value \in ChannelValues :
          blend' = ValueCall("color_dodge_value", base, blend_value,
                             color_dodge_value_run(base, blend_value))
    /\ UNCHANGED <<image, secondary, call>>

ColorBurnValue ==
    /\ blend = NoBlend
    /\ \E base \in ChannelValues, blend_value \in ChannelValues :
          blend' = ValueCall("color_burn_value", base, blend_value,
                             color_burn_value_run(base, blend_value))
    /\ UNCHANGED <<image, secondary, call>>

NextBlendValue ==
    \/ DivideValue
    \/ ColorDodgeValue
    \/ ColorBurnValue

SpecBlendValue == InitBlendMode /\ [][NextBlendValue]_vars


----------------------------------------------------------------------------
(***************************************************************************)
(* One call of draw_layer_over_image per behaviour: `image` is the target  *)
(* and call.layer the layer drawn over it.                                 *)
(***************************************************************************)
MaxDrawPixels == 2

ORANGE == <<255, 51, 0, 128>>

TargetPalette == {ZERO, RED, HALF}

LayerPalette == {ZERO, ORANGE, WHITE}

\* The images of at most n pixels over a palette, each with rows of
\* 4 * width bytes plus, when it has more rows than one, a padding that
\* `paddings` allows.
PaintedImages(palette, n, paddings) ==
    UNION { {ImageOf(pixels, sz, 4 * sz.width + padding) :
                pixels \in [1..(sz.width * sz.height) -> palette],
                padding \in IF sz.height > 1 THEN paddings ELSE {0}} : sz \in Sizes(n) }

\* A target of several rows is stored without padding or with one pixel of
\* padding, a layer image of several rows with one pixel of padding.
Targets == PaintedImages(TargetPalette, MaxDrawPixels, {0, 4})

LayerImages == PaintedImages(LayerPalette, MaxDrawPixels, {4})

\* The layer positions: along each axis from beyond one side of the target
\* to beyond the other, halves included, and the two diagonal halves.
DrawCoordinates == {f32(-5, 2), f32(-1, 2), f32(0, 1), f32(1, 2), f32(2, 1)}

DrawPositions ==
    {Point(x, f32(0, 1)) : x \in DrawCoordinates}
        \cup {Point(f32(0, 1), y) : y \in DrawCoordinates}
        \cup {Point(f32(-1, 2), f32(-1, 2)), Point(f32(1, 2), f32(1, 2))}

Opacities == {f32(0, 1), f32(1, 2), f32(1, 1)}

InitDraw ==
    /\ image \in Targets
    /\ secondary = None
    /\ call = NoCall
    /\ blend = NoBlend

DrawLayerOverImage ==
    /\ call.op = "none"
    /\ \E layer_image \in LayerImages,
          position \in DrawPositions, blend_mode \in BlendMode, opacity \in Opacities :
          \E layer \in {[image |-> layer_image, position |-> position,
                         blend_mode |-> blend_mode, opacity |-> opacity]} :
              /\ image' = draw_layer_over_image(image, layer)
              /\ call' = [op |-> "draw_layer_over_image", before |-> image, layer |-> layer]
    /\ UNCHANGED <<secondary, blend>>

NextDraw == DrawLayerOverImage

SpecDraw == InitDraw /\ [][NextDraw]_vars


----------------------------------------------------------------------------
(***************************************************************************)
(* One call of composite per behaviour: call.operation is the operation    *)
(* and, after the call, `image` the image returned.                        *)
(***************************************************************************)
MaxCanvasPixels == 2

\* Color::from_rgb_u32(0x5fcde4)
SKY == <<95, 205, 228, 255>>

\* The layer images: the empty image and the image of the opaque colour, in
\* each size; of one pixel, the half-opaque pixel; of two pixels, two opaque
\* colours and a half-opaque colour beside an opaque one.
CompositeImages ==
    UNION { {Image_empty(sz), Solid(SKY, sz, 4 * sz.width)}
                \cup (IF sz.width * sz.height = 1
                      THEN {Solid(ORANGE, sz, 4 * sz.width)}
                      ELSE {ImageOf([k \in 1..(sz.width * sz.height) |->
                                        IF k = 1 THEN SKY ELSE RED], sz, 4 * sz.width),
                            ImageOf([k \in 1..(sz.width * sz.height) |->
                                        IF k = 1 THEN ORANGE ELSE SKY], sz, 4 * sz.width)})
            : sz \in Sizes(MaxCanvasPixels) }

CompositePositions == {Point(f32(0, 1), f32(0, 1)), Point(f32(1, 2), f32(0, 1))}

CompositeModes == {"Normal", "Multiply", "DestinationOut"}

CompositeOpacities == {f32(1, 5), f32(1, 2), f32(1, 1)}

CompositeLayers ==
    {[image |-> layer_image, position |-> position,
      blend_mode |-> blend_mode, opacity |-> opacity] :
        layer_image \in CompositeImages, position \in CompositePositions,
        blend_mode \in CompositeModes, opacity \in CompositeOpacities}

\* The operations: no layer, one layer, or two.
Operations ==
    {Operation_new(layers, size) :
        layers \in {<<>>} \cup {<<a>> : a \in CompositeLayers}
                          \cup {<<a, b>> : a \in CompositeLayers, b \in CompositeLayers},
        size \in Sizes(MaxCanvasPixels)}

\* The operation is drawn before the call.
InitComposite ==
    /\ image = Image_empty(Size(0, 0))
    /\ secondary = None
    /\ call \in {[op |-> "none", operation |-> operation] : operation \in Operations}
    /\ blend = NoBlend

Composite ==
    /\ call.op = "none"
    /\ image' = composite(call.operation)
    /\ call' = [call EXCEPT !.op = "composite"]
    /\ UNCHANGED <<secondary, blend>>

NextComposite == Composite

SpecComposite == InitComposite /\ [][NextComposite]_vars


----------------------------------------------------------------------------
(***************************************************************************)
(* One call of RgbaColor::to_color or RgbColor::to_color per behaviour, on *)
(* channels inside and outside [0, 1].                                    *)
(***************************************************************************)
\* Channel values: below 0, the halves on both sides of the byte steps at 0
\* and at 255, inside [0, 1], and above 1.
WideChannelValues ==
    {f32(-2, 1), f32(-1, 255), f32(-1, 510), f32(0, 1), f32(1, 510), f32(128, 255),
     f32(509, 510), f32(1, 1), f32(511, 510), f32(256, 255), f32(3, 1)}

ToColor ==
    /\ blend = NoBlend
    /\ \E red \in WideChannelValues, green \in WideChannelValues,
          blue \in WideChannelValues, alpha \in WideChannelValues :
          \E c \in {[red |-> red, green |-> green, blue |-> blue, alpha |-> alpha]} :
              blend' = [op |-> "RgbaColor::to_color", color |-> c, result |-> to_color(c)]
    /\ UNCHANGED <<image, secondary, call>>

RgbToColor ==
    /\ blend = NoBlend
    /\ \E red \in WideChannelValues, green \in WideChannelValues,
          blue \in WideChannelValues :
          \E c \in {RgbColor_new(red, green, blue)} :
              blend' = [op |-> "RgbColor::to_color", color |-> c,
                        result |-> RgbColor_to_color(c)]
    /\ UNCHANGED <<image, secondary, call>>

NextToColor ==
    \/ ToColor
    \/ RgbToColor

SpecToColor == InitBlendMode /\ [][NextToColor]_vars


----------------------------------------------------------------------------
(***************************************************************************)
(* One call of delete_pixels per behaviour: `image` is the image and       *)
(* call.mask the mask.                                                     *)
(***************************************************************************)
\* A transparent pixel whose colour bytes are not zero.
GHOST == <<51, 255, 0, 0>>

HALF_WHITE == <<255, 255, 255, 128>>

DeleteImages == PaintedImages({ZERO, GHOST, HALF, RED}, MaxMaskPixels, {0, 4})

\* A mask's image has the size of its bounding box; each of its pixels is
\* opaque, half opaque or fully transparent.
DeleteMasks(img) ==
    UNION { {Mask(ImageOf(pixels, box.size, 4 * box.size.width), box) :
                pixels \in [1..(box.size.width * box.size.height) ->
                               {WHITE, HALF_WHITE, ZERO}]} :
            box \in MaskBoxes(img) }

InitDelete ==
    /\ image \in DeleteImages
    /\ secondary = None
    /\ call = NoCall
    /\ blend = NoBlend

DeletePixels ==
    /\ call.op = "none"
    /\ \E mask \in DeleteMasks(image) :
          /\ image' = delete_pixels(image, mask)
          /\ call' = [op |-> "delete_pixels", mask |-> mask, before |-> image]
    /\ UNCHANGED <<secondary, blend>>

NextDelete == DeletePixels

SpecDelete == InitDelete /\ [][NextDelete]_vars


----------------------------------------------------------------------------
(***************************************************************************)
(* One call of Image::draw_image_over per behaviour: `image` is self and   *)
(* call.other_image the image drawn over it at call.location.              *)
(***************************************************************************)
MaxOverPixels == 4

\* The locations reach from wholly beyond the left and the top side of
\* self to wholly beyond its right and its bottom side.
MaxOverDistance == 2

OverTargets == PaintedImages({ZERO, RED}, MaxOverPixels, {0, 4})

OverImages == PaintedImages({WHITE, ORANGE}, MaxOverPixels, {4})

OverLocations ==
    {Point(x, y) : x \in (-MaxOverDistance)..MaxOverDistance,
                   y \in (-MaxOverDistance)..MaxOverDistance}

InitDrawOver ==
    /\ image \in OverTargets
    /\ secondary = None
    /\ call = NoCall
    /\ blend = NoBlend

DrawImageOver ==
    /\ call.op = "none"
    /\ \E other_image \in OverImages, location \in OverLocations :
          /\ image' = draw_image_over(image, other_image, location)
          /\ call' = [op |-> "draw_image_over", before |-> image,
                      other_image |-> other_image, location |-> location]
    /\ UNCHANGED <<secondary, blend>>

NextDrawOver == DrawImageOver

SpecDrawOver == InitDrawOver /\ [][NextDrawOver]_vars

----------------------------------------------------------------------------
(***************************************************************************)
(* One call of Image::pixel_color per behaviour: `image` is self,          *)
(* call.location the location and call.result the value returned.          *)
(***************************************************************************)
MaxSamplePixels == 4

SampleImages == PaintedImages({RED, HALF, WHITE}, MaxSamplePixels, {0, 4})

\* The locations: every pixel and two rings around the image.
SampleLocations(img) ==
    {Point(x, y) : x \in -2..(img.size.width + 1), y \in -2..(img.size.height + 1)}

InitSample ==
    /\ image \in SampleImages
    /\ secondary = None
    /\ call = NoCall
    /\ blend = NoBlend

PixelColor ==
    /\ call.op = "none"
    /\ \E location \in SampleLocations(image) :
          call' = [op |-> "pixel_color", location |-> location,
                   result |-> pixel_color(image, location)]
    /\ UNCHANGED <<image, secondary, blend>>

NextSample == PixelColor

SpecSample == InitSample /\ [][NextSample]_vars

----------------------------------------------------------------------------
(***************************************************************************)
(* One call of draw_layer_over_image per behaviour with a layer of opacity *)
(* 0: `image` is the target, whose pixels may be transparent with colour   *)
(* bytes that are not zero, and call.layer the layer.                      *)
(***************************************************************************)
FadedTargets == PaintedImages({ZERO, GHOST, HALF, RED}, MaxDrawPixels, {0})

InitFaded ==
    /\ image \in FadedTargets
    /\ secondary = None
    /\ call = NoCall
    /\ blend = NoBlend

DrawFadedLayer ==
    /\ call.op = "none"
    /\ \E layer_image \in LayerImages,
          position \in DrawPositions, blend_mode \in BlendMode :
          \E layer \in {[image |-> layer_image, position |-> position,
                         blend_mode |-> blend_mode, opacity |-> f32(0, 1)]} :
              /\ image' = draw_layer_over_image(image, layer)
              /\ call' = [op |-> "draw_layer_over_image", before |-> image, layer |-> layer]
    /\ UNCHANGED <<secondary, blend>>

NextFaded == DrawFadedLayer

SpecFaded == InitFaded /\ [][NextFaded]_vars

----------------------------------------------------------------------------
(***************************************************************************)
(* One call of composite per behaviour on an operation whose               *)
(* should_premultiply field, which is public, holds either value.          *)
(***************************************************************************)
FlaggedModes == {"Normal", "Multiply"}

FlaggedOpacities == {f32(1, 2), f32(1, 1)}

FlaggedLayers ==
    {[image |-> layer_image, position |-> position,
      blend_mode |-> blend_mode, opacity |-> opacity] :
        layer_image \in CompositeImages, position \in CompositePositions,
        blend_mode \in FlaggedModes, opacity \in FlaggedOpacities}

FlaggedOperations ==
    {[Operation_new(layers, size) EXCEPT !.should_premultiply = flag] :
        layers \in {<<>>} \cup {<<a>> : a \in FlaggedLayers}
                          \cup {<<a, b>> : a \in FlaggedLayers, b \in FlaggedLayers},
        size \in Sizes(MaxCanvasPixels),
        flag \in BOOLEAN}

InitFlagged ==
    /\ image = Image_empty(Size(0, 0))
    /\ secondary = None
    /\ call \in {[op |-> "none", operation |-> operation] : operation \in FlaggedOperations}
    /\ blend = NoBlend

SpecFlagged == InitFlagged /\ [][NextComposite]_vars

----------------------------------------------------------------------------
(***************************************************************************)
(* One call of set_saturation per behaviour on a colour whose channels are *)
(* bytes divided by 255: blend.color is the colour, blend.saturation the   *)
(* saturation and blend.result the colour the call leaves.                 *)
(***************************************************************************)
SaturationBytes == {0, 1, 2, 50, 51, 52, 127, 128, 129, 204, 253, 254, 255}

SaturationColors ==
    {RgbColor_new(f32(r, 255), f32(g, 255), f32(b, 255)) :
        r \in SaturationBytes, g \in SaturationBytes, b \in SaturationBytes}

Saturations == {f32(0, 1), f32(1, 255), f32(1, 3), f32(1, 2), f32(254, 255), f32(1, 1)}

SetSaturation ==
    /\ blend = NoBlend
    /\ \E c \in SaturationColors, s \in Saturations :
          blend' = [op |-> "set_saturation", color |-> c, saturation |-> s,
                    result |-> set_saturation(c, s)]
    /\ UNCHANGED <<image, secondary, call>>

NextSaturation == SetSaturation

SpecSaturation == InitBlendMode /\ [][NextSaturation]_vars

----------------------------------------------------------------------------
(***************************************************************************)
(* One call of flood_fill_in_bounds per behaviour, step by step: the       *)
(* checks, then the seeds popped one by one and, for each, the turns of    *)
(* the loop down its column, then the return.  `image` is the image the    *)
(* call works on, call.st the buffers, the seed stack and the affected     *)
(* extent, call.pc the loop the call is at the head of, call.status        *)
(* "Running" in the loops, "Ok" and "Err" after the return and "Panic"     *)
(* after an index out of range.                                            *)
(***************************************************************************)
\* The bounding boxes: none, the first column, the columns after it, the
\* first row, a box that touches the image's bottom edge and a box around
\* the image.
StepBoxes(img) ==
    {None} \cup
    {Some(box) : box \in {Rect_new(0, 0, 1, img.size.height),
                          Rect_new(1, 0, img.size.width - 1, img.size.height),
                          Rect_new(0, 0, img.size.width, 1),
                          Rect_new(0, img.size.height, img.size.width, 1),
                          Rect_new(-1, -1, img.size.width + 2, img.size.height + 2)}}

\* Lines 65-122: the checks and what precedes the loop.
BeginFill ==
    /\ call.op = "none"
    /\ \E start \in Starts(image), fill_color \in FillColors,
          bounding_box \in StepBoxes(image) :
          \E clamped \in {intersection(IF bounding_box.some THEN bounding_box.value
                                       ELSE [origin |-> Point_zero, size |-> image.size],
                                       [origin |-> Point_zero, size |-> image.size])} :
              call' = [op |-> "flood_fill_in_bounds", start |-> start,
                       fill_color |-> fill_color, bounding_box |-> bounding_box,
                       before |-> image, rect |-> Rect_new(0, 0, 0, 0),
                       status |-> IF clamped.some /\ contains(clamped.value, start)
                                  THEN "Running" ELSE "Err",
                       cx |-> IF clamped.some /\ contains(clamped.value, start)
                              THEN fill_context(image, start, fill_color, None, clamped.value)
                              ELSE None,
                       st |-> fill_start(image, start, None),
                       pc |-> "pop", current_point |-> start,
                       color |-> <<0, 0, 0, 0>>,
                       span_left |-> FALSE, span_right |-> FALSE]
    /\ UNCHANGED <<image, secondary, blend>>

\* Lines 124-143: a seed is popped and the column walked up; the call is
\* then at the head of the loop down the column (line 145) with the point,
\* the colour read there and both span flags false.
PopSeed ==
    /\ call.op = "flood_fill_in_bounds"
    /\ call.status = "Running"
    /\ call.pc = "pop"
    /\ call.st.points # <<>>
    /\ \E current_point \in {call.st.points[Len(call.st.points)]} :
          \E top_y \in {walk_up(current_point.x, current_point.y,
                                unsigned_int_color(current_point, call.st.data,
                                                   call.cx.bytes_per_row),
                                call.st.data, call.cx.bytes_per_row, call.cx.min_y,
                                call.cx.target_color) + 1} :
              call' = [call EXCEPT
                          !.pc = "fill",
                          !.st.points = SubSeq(call.st.points, 1, Len(call.st.points) - 1),
                          !.current_point = Point(current_point.x, top_y),
                          !.color = unsigned_int_color(Point(current_point.x, top_y),
                                                       call.st.data, call.cx.bytes_per_row),
                          !.span_left = FALSE,
                          !.span_right = FALSE]
    /\ UNCHANGED <<image, secondary, blend>>

\* Lines 145-205: one turn of the loop down the column; a store out of
\* range panics.
FillPixel ==
    /\ call.op = "flood_fill_in_bounds"
    /\ call.status = "Running"
    /\ call.pc = "fill"
    /\ fills(call.cx, call.current_point.y, call.color)
    /\ \E turn \in {fill_pixel(call.cx, call.st, call.current_point.x, call.current_point.y,
                                call.color, call.span_left, call.span_right)} :
          /\ image' = [image EXCEPT !.data = turn.st.data]
          /\ call' = [call EXCEPT
                          !.st = turn.st,
                          !.status = IF turn.st.panicked THEN "Panic" ELSE "Running",
                          !.current_point.y = IF turn.st.panicked THEN @ ELSE @ + 1,
                          !.color = turn.color,
                          !.span_left = turn.span_left,
                          !.span_right = turn.span_right]
    /\ UNCHANGED <<secondary, blend>>

\* Lines 145 and 206: the loop down the column ends and the call is back at
\* the head of the loop over the seed stack.
EndColumn ==
    /\ call.op = "flood_fill_in_bounds"
    /\ call.status = "Running"
    /\ call.pc = "fill"
    /\ ~fills(call.cx, call.current_point.y, call.color)
    /\ call' = [call EXCEPT !.pc = "pop"]
    /\ UNCHANGED <<image, secondary, blend>>

\* Lines 124 and 209-216: the stack is empty and the call returns the
\* affected region.
ReturnFill ==
    /\ call.op = "flood_fill_in_bounds"
    /\ call.status = "Running"
    /\ call.pc = "pop"
    /\ call.st.points = <<>>
    /\ call' = [call EXCEPT !.status = "Ok",
                            !.rect = affected_region(call.st.affected_min_x,
                                                     call.st.affected_min_y,
                                                     call.st.affected_max_x,
                                                     call.st.affected_max_y)]
    /\ UNCHANGED <<image, secondary, blend>>

NextSteps ==
    \/ BeginFill
    \/ PopSeed
    \/ FillPixel
    \/ EndColumn
    \/ ReturnFill

\* The call runs on one thread without suspension: once it has passed the
\* checks, the step that can be taken is taken.
SpecSteps ==
    /\ InitBounds
    /\ [][NextSteps]_vars
    /\ WF_vars(PopSeed)
    /\ WF_vars(FillPixel)
    /\ WF_vars(EndColumn)
    /\ WF_vars(ReturnFill)

----------------------------------------------------------------------------
(***************************************************************************)
(* What the claims speak of: pixels, 4-connected regions, changed pixels.  *)
(***************************************************************************)
PixelsOf(img) == {Point(x, y) : x \in 0..(img.size.width - 1), y \in 0..(img.size.height - 1)}

\* The four bytes of pixel p, at offset bytes_per_row * y + 4 * x.
PixelAt(img, p) ==
    LET offset == img.bytes_per_row * p.y + 4 * p.x
    IN  <<img.data[offset + 1], img.data[offset + 2], img.data[offset + 3], img.data[offset + 4]>>

Adjacent(p, q) ==
    \/ p.x = q.x /\ (p.y = q.y + 1 \/ q.y = p.y + 1)
    \/ p.y = q.y /\ (p.x = q.x + 1 \/ q.x = p.x + 1)

\* The pixels among `within` joined to a pixel of `reached` by a path of
\* adjacent pixels of colour c.
RECURSIVE Grow(_, _, _, _)
Grow(img, c, within, reached) ==
    LET more == {q \in within \ reached :
                    PixelAt(img, q) = c /\ \E p \in reached : Adjacent(p, q)}
    IN  IF more = {} THEN reached ELSE Grow(img, c, within, reached \cup more)

\* The region of start: the pixels 4-connected to it through pixels of its
\* colour.
RegionOf(img, start) == Grow(img, PixelAt(img, start), PixelsOf(img), {start})

ChangedPixels(before, after) ==
    {p \in PixelsOf(before) : PixelAt(after, p) # PixelAt(before, p)}

FillBytes(c) == <<c.red, c.green, c.blue, c.alpha>>

StartInImage == call.start \in PixelsOf(call.before)

\* A call of flood_fill at a pixel of the image with a colour other than
\* the pixel's.
RealFill ==
    /\ call.op = "flood_fill"
    /\ StartInImage
    /\ FillBytes(call.fill_color) # PixelAt(call.before, call.start)

\* C1: after flood_fill from a pixel of the image with a colour other than
\* that pixel's, the pixels 4-connected to the start through pixels of the
\* start's colour hold the fill colour and every other byte of the image is
\* as before.
C1_FloodFillRegion ==
    RealFill =>
        /\ call.status = "Ok"
        /\ image.size = call.before.size
        /\ image.bytes_per_row = call.before.bytes_per_row
        /\ Len(image.data) = Len(call.before.data)
        /\ \A p \in PixelsOf(call.before) :
              PixelAt(image, p) = IF p \in RegionOf(call.before, call.start)
                                  THEN FillBytes(call.fill_color)
                                  ELSE PixelAt(call.before, p)
        /\ \A k \in 1..Len(image.data) :
              (k - 1) % image.bytes_per_row >= 4 * image.size.width
                  => image.data[k] = call.before.data[k]

\* A fill that turns a corner and leaves alone a pixel of the start's colour
\* that the region does not reach.
C1_Witness ==
    /\ RealFill
    /\ LET region == RegionOf(call.before, call.start)
       IN  /\ \E p \in region : p.x # call.start.x /\ p.y # call.start.y
           /\ \E q \in PixelsOf(call.before) \ region :
                 PixelAt(call.before, q) = PixelAt(call.before, call.start)

\* C5: flood_fill at a pixel of the image with that pixel's own colour
\* changes no byte and returns the 1x1 rectangle at the start.
C5_NoOpFill ==
    /\ call.op = "flood_fill"
    /\ StartInImage
    /\ FillBytes(call.fill_color) = PixelAt(call.before, call.start)
    => /\ call.status = "Ok"
       /\ image = call.before
       /\ call.rect = Rect_new(call.start.x, call.start.y, 1, 1)
       /\ contains(call.rect, call.start)

\* A no-op fill in a region of more than one pixel.
C5_Witness ==
    /\ call.op = "flood_fill"
    /\ StartInImage
    /\ FillBytes(call.fill_color) = PixelAt(call.before, call.start)
    /\ Cardinality(RegionOf(call.before, call.start)) > 2
    /\ call.status = "Ok"

SetMin(S) == CHOOSE m \in S : \A n \in S : m <= n

SetMax(S) == CHOOSE m \in S : \A n \in S : m >= n

\* The smallest rectangle that holds the pixels of the non-empty set ps.
BoundingRect(ps) ==
    LET xs == {p.x : p \in ps}
        ys == {p.y : p \in ps}
    IN  Rect_new(SetMin(xs), SetMin(ys),
                 SetMax(xs) - SetMin(xs) + 1, SetMax(ys) - SetMin(ys) + 1)

\* C6: when flood_fill changes a pixel, the rectangle it returns is the
\* smallest one that holds every changed pixel.
C6_AffectedRect ==
    RealFill => /\ ChangedPixels(call.before, image) # {}
                /\ call.rect = BoundingRect(ChangedPixels(call.before, image))

\* A fill whose changed pixels span several rows and columns without
\* covering the image, the start being strictly inside the rectangle.
C6_Witness ==
    /\ RealFill
    /\ call.status = "Ok"
    /\ call.rect.size.width >= 3
    /\ call.rect.size.height >= 2
    /\ call.start.x > call.rect.origin.x
    /\ call.start.x < call.rect.origin.x + call.rect.size.width - 1
    /\ ChangedPixels(call.before, image) # PixelsOf(call.before)

\* The bounding box of the last call clamped to the image, as the set of
\* its pixels: min_x <= x < max_x and min_y <= y < max_y.
ImageBounds(img) == [origin |-> Point_zero, size |-> img.size]

GivenBox == IF call.bounding_box.some THEN call.bounding_box.value
            ELSE ImageBounds(call.before)

ClampedPixels ==
    LET clamped == intersection(GivenBox, ImageBounds(call.before))
    IN  IF clamped.some
        THEN {p \in PixelsOf(call.before) :
                 /\ min_x(clamped.value) <= p.x /\ p.x < max_x(clamped.value)
                 /\ min_y(clamped.value) <= p.y /\ p.y < max_y(clamped.value)}
        ELSE {}

FillCall == call.op \in {"flood_fill", "flood_fill_in_bounds", "flood_fill_with_reference"}

NothingModified == image = call.before /\ secondary = call.before_secondary

\* C2: flood_fill_in_bounds returns an error and modifies neither image
\* whenever the start is not a pixel of the bounding box clamped to the
\* image.
C2_StartOutsideIsError ==
    FillCall /\ call.start \notin ClampedPixels
        => call.status = "Err" /\ NothingModified

\* The box has no pixel in common with the image: it lies left of, right
\* of, above or below [0, width) x [0, height), touching it at most.
BoxOutsideImage ==
    /\ call.bounding_box.some
    /\ LET box == call.bounding_box.value
       IN  \/ max_x(box) <= 0
           \/ min_x(box) >= call.before.size.width
           \/ max_y(box) <= 0
           \/ min_y(box) >= call.before.size.height

\* C3: flood_fill_in_bounds returns an error and leaves the image unchanged
\* whenever the bounding box shares no pixel with the image, for every
\* start point.
C3_BoxOutsideIsError ==
    call.op = "flood_fill_in_bounds" /\ BoxOutsideImage
        => call.status = "Err" /\ NothingModified

\* C4: no call of flood_fill_in_bounds on a well-formed image panics: it
\* indexes no buffer out of range and returns Ok or Err.
C4_NeverPanics ==
    FillCall => call.status \in {"Ok", "Err"}

SameShapeTarget ==
    /\ call.before_secondary.some
    /\ ~secondary_mismatch(call.before_secondary.value, call.before)

\* C7: flood_fill_with_reference leaves the reference unchanged, sets to the
\* fill colour exactly the target pixels at the positions of the
\* reference's region of the start, and leaves the other target pixels
\* unchanged.
C7_ReferenceFill ==
    /\ call.op = "flood_fill_with_reference"
    /\ StartInImage
    /\ SameShapeTarget
    => /\ call.status = "Ok"
       /\ image = call.before
       /\ \A p \in PixelsOf(call.before) :
             PixelAt(secondary.value, p) =
                 IF p \in RegionOf(call.before, call.start)
                 THEN FillBytes(call.fill_color)
                 ELSE PixelAt(call.before_secondary.value, p)

SecondaryMismatch ==
    /\ call.op \in {"flood_fill_in_bounds", "flood_fill_with_reference"}
    /\ call.before_secondary.some
    /\ \/ call.before_secondary.value.size # call.before.size
       \/ call.before_secondary.value.bytes_per_row # call.before.bytes_per_row

\* C8: a fill given a secondary image whose size or bytes_per_row differs
\* from the primary's returns an error, and neither image is modified.
C8_SecondaryMismatchIsError ==
    SecondaryMismatch => call.status = "Err" /\ NothingModified

\* A call that only the stride of the secondary image makes fail: the start
\* is a pixel of the box and the sizes agree.
C8_Witness ==
    /\ SecondaryMismatch
    /\ call.op = "flood_fill_in_bounds"
    /\ call.before_secondary.value.size = call.before.size
    /\ call.start \in ClampedPixels
    /\ FillBytes(call.fill_color) # PixelAt(call.before, call.start)
    /\ call.status = "Err"

\* The mask of the last call covers pixel p of the image.
MaskCovers(p) ==
    LET q == Point(p.x - call.mask.bounding_box.origin.x,
                   p.y - call.mask.bounding_box.origin.y)
    IN  /\ q \in PixelsOf(call.mask.image)
        /\ PixelAt(call.mask.image, q)[4] # 0

\* The region the fill reaches: the pixels of the clamped box 4-connected to
\* the start through pixels of the box that have the start's colour.
RegionInBox ==
    Grow(call.before, PixelAt(call.before, call.start), ClampedPixels, {call.start})

MaskedErase ==
    /\ call.op = "flood_fill_with_mask"
    /\ call.fill_color.alpha = 0
    /\ call.start \in ClampedPixels

\* C9: flood_fill_with_mask with a fill colour of alpha 0 leaves alpha 0 in
\* the pixels that the mask covers and the fill reaches from the start, and
\* leaves the four bytes of every other pixel as they were, whatever their
\* alpha.
C9_MaskedErase ==
    MaskedErase =>
        /\ call.status = "Ok"
        /\ image.size = call.before.size
        /\ image.bytes_per_row = call.before.bytes_per_row
        /\ \A p \in PixelsOf(call.before) :
              IF p \in RegionInBox /\ MaskCovers(p)
              THEN PixelAt(image, p)[4] = 0
              ELSE PixelAt(image, p) = PixelAt(call.before, p)

\* C10: from_str of the string as_str gives for a blend mode is that mode.
C10_StringRoundTrip ==
    /\ blend.op = "from_str"
    /\ blend.mode.some
    /\ blend.string = Some(as_str(blend.mode.value))
    => blend.result = Some(blend.mode.value)

\* C11: from_primitive of the number of a blend mode is that mode; every
\* number from 0 to 21 is the number of the mode from_primitive gives for
\* it, so the 22 numbers and the 22 modes correspond one to one; and from 22
\* on from_primitive gives None.
C11_NumericRoundTrip ==
    blend.op = "from_primitive" =>
        /\ blend.mode.some => blend.result = Some(blend.mode.value)
        /\ blend.value.value <= 21 =>
              /\ blend.result.some
              /\ blend.result.value \in BlendMode
              /\ discriminant(blend.result.value) = blend.value.value
        /\ blend.value.value >= 22 => blend.result = None
        /\ Cardinality(BlendMode) = 22
        /\ {discriminant(m) : m \in BlendMode} = 0..21

\* The last variant has gone through the cast and back.
C11_Witness ==
    /\ blend.op = "from_primitive"
    /\ blend.mode = Some("DestinationOut")
    /\ blend.value = Some(21)
    /\ blend.result.some

\* The blend modes whose name has two words, and the three spellings of
\* each name: camel case, snake case, kebab case.
TwoWordModes ==
    { "ColorBurn", "ColorDodge", "HardLight", "SoftLight", "PassThrough",
      "DestinationIn", "DestinationOut" }

Spellings(m) ==
    CASE m = "ColorBurn" -> {"colorBurn", "color_burn", "color-burn"}
      [] m = "ColorDodge" -> {"colorDodge", "color_dodge", "color-dodge"}
      [] m = "HardLight" -> {"hardLight", "hard_light", "hard-light"}
      [] m = "SoftLight" -> {"softLight", "soft_light", "soft-light"}
      [] m = "PassThrough" -> {"passThrough", "pass_through", "pass-through"}
      [] m = "DestinationIn" -> {"destinationIn", "destination_in", "destination-in"}
      [] m = "DestinationOut" -> {"destinationOut", "destination_out", "destination-out"}

\* C12: from_str maps the camel-case, the snake-case and the kebab-case
\* spelling of every two-word blend mode to that mode.
C12_LegacySpellings ==
    /\ blend.op = "from_str"
    /\ blend.string.some
    => \A m \in TwoWordModes :
          blend.string.value \in Spellings(m) => blend.result = Some(m)

\* C19: every division of divide_value, color_dodge_value and
\* color_burn_value is guarded: for base and blend in [0, 1] none of them
\* evaluates a division whose divisor is 0.
C19_DivisionsGuarded ==
    /\ blend.op \in {"divide_value", "color_dodge_value", "color_burn_value"}
    /\ blend.divisor.some
    => blend.divisor.value.n # 0

\* The integer nearest to a coordinate of a layer position, a half going
\* away from zero.
Nearest(v) ==
    CHOOSE k \in -3..3 :
        \/ 2 * abs(k * v.d - v.n) < v.d
        \/ 2 * abs(k * v.d - v.n) = v.d /\ abs(k) * v.d > abs(v.n)

DrawCall == call.op = "draw_layer_over_image"

\* The layer of the call lies wholly beyond the right, the left, the bottom
\* or the top side of the target.
OffCanvas ==
    \/ Nearest(call.layer.position.x) >= call.before.size.width
    \/ Nearest(call.layer.position.x) + call.layer.image.size.width <= 0
    \/ Nearest(call.layer.position.y) >= call.before.size.height
    \/ Nearest(call.layer.position.y) + call.layer.image.size.height <= 0

\* C13: draw_layer_over_image with a layer whose rounded position puts it
\* wholly outside the target, on any of the four sides, leaves the target
\* byte for byte as it was, whatever the blend mode and the opacity.
C13_OffCanvasUntouched == DrawCall /\ OffCanvas => image = call.before

\* A half-opaque layer pixel at x = -1/2, which rounds to -1, beside an
\* opaque target, blended with Hue.
C13_Witness ==
    /\ DrawCall
    /\ OffCanvas
    /\ call.layer.position.x = f32(-1, 2)
    /\ call.layer.image.size.width = 1
    /\ call.layer.blend_mode = "Hue"
    /\ call.layer.opacity = f32(1, 2)
    /\ call.layer.image.data[4] = 128
    /\ call.before.data[4] = 255

\* The layer pixel drawn over target pixel p, and whether there is one.
LayerPixel(p) ==
    Point(p.x - Nearest(call.layer.position.x), p.y - Nearest(call.layer.position.y))

Covered(p) == LayerPixel(p) \in PixelsOf(call.layer.image)

\* n / d to the nearest integer, a half going up (n >= 0, d > 0).
RoundDiv(n, d) == (2 * n + d) \div (2 * d)

\* The alpha byte the claim gives a base alpha a under a blend alpha b:
\* a * (b / 255) * opacity for DestinationIn and
\* a * opacity * (1 - b / 255) for DestinationOut.
PorterDuffAlpha(a, b, blend_mode, opacity) ==
    IF blend_mode = "DestinationIn"
    THEN RoundDiv(a * b * opacity.n, 255 * opacity.d)
    ELSE RoundDiv(a * (255 - b) * opacity.n, 255 * opacity.d)

PorterDuffCall == DrawCall /\ call.layer.blend_mode \in {"DestinationIn", "DestinationOut"}

CompositeCall == call.op = "composite"

\* Every pixel of the image has alpha 255.
FullyOpaque(img) == \A p \in PixelsOf(img) : PixelAt(img, p)[4] = 255

\* The operation holds one layer, of the canvas's size, at (0, 0) and with
\* the Normal blend mode.
OneNormalLayer ==
    /\ CompositeCall
    /\ Len(call.operation.layers) = 1
    /\ call.operation.layers[1].image.size = call.operation.size
    /\ call.operation.layers[1].position = Point(f32(0, 1), f32(0, 1))
    /\ call.operation.layers[1].blend_mode = "Normal"

\* C15: a single fully opaque layer at (0, 0), of opacity 1.0 and blend mode
\* Normal, composited onto a canvas of its own size gives the layer's bytes.
C15_OpaqueLayerIdentity ==
    /\ OneNormalLayer
    /\ call.operation.layers[1].opacity = f32(1, 1)
    /\ FullyOpaque(call.operation.layers[1].image)
    => image = call.operation.layers[1].image

\* A layer of two opaque pixels of different colours.
C15_Witness ==
    /\ OneNormalLayer
    /\ call.operation.layers[1].opacity = f32(1, 1)
    /\ call.operation.layers[1].image.data = SKY \o RED
    /\ image.data = SKY \o RED

\* The layers are one solid opaque layer of the canvas's size at (0, 0) with
\* the Normal blend mode, alone or above an empty layer drawn the same way.
SolidLayer(layer) ==
    /\ layer.image.size = call.operation.size
    /\ layer.position = Point(f32(0, 1), f32(0, 1))
    /\ layer.blend_mode = "Normal"
    /\ FullyOpaque(layer.image)
    /\ \A p \in PixelsOf(layer.image) : PixelAt(layer.image, p) = PixelAt(layer.image, Point_zero)

EmptyBaseLayer(layer) ==
    /\ layer.image = Image_empty(call.operation.size)
    /\ layer.position = Point(f32(0, 1), f32(0, 1))
    /\ layer.blend_mode = "Normal"

SolidOverTransparent ==
    /\ CompositeCall
    /\ \/ Len(call.operation.layers) = 1
       \/ /\ Len(call.operation.layers) = 2
          /\ EmptyBaseLayer(call.operation.layers[1])
    /\ SolidLayer(call.operation.layers[Len(call.operation.layers)])

\* C16: a solid opaque colour c drawn with opacity o, 0 < o <= 1, and the
\* Normal blend mode over a transparent canvas of its size gives, in every
\* pixel, c's red, green and blue and the alpha round(255 * o), with or
\* without an empty layer beneath.
C16_OpacityLinearity ==
    SolidOverTransparent =>
        LET top == call.operation.layers[Len(call.operation.layers)]
        IN  \A p \in PixelsOf(image) :
                /\ SubSeq(PixelAt(image, p), 1, 3) = SubSeq(PixelAt(top.image, p), 1, 3)
                /\ PixelAt(image, p)[4] = RoundDiv(255 * top.opacity.n, top.opacity.d)

\* 0x5FCDE4 at opacity 0.5 over an empty layer, on one pixel: 5F CD E4 80.
C16_Witness ==
    /\ SolidOverTransparent
    /\ Len(call.operation.layers) = 2
    /\ call.operation.size = Size(1, 1)
    /\ call.operation.layers[2].image.data = SKY
    /\ call.operation.layers[2].opacity = f32(1, 2)
    /\ image.data = <<95, 205, 228, 128>>

\* The image left by draw_layer_over_image called once for each layer, in
\* the order of the vector, on a buffer of zero bytes.
LayerByLayer(operation) ==
    IF Len(operation.layers) = 0
    THEN Image_empty(operation.size)
    ELSE IF Len(operation.layers) = 1
    THEN draw_layer_over_image(Image_empty(operation.size), operation.layers[1])
    ELSE draw_layer_over_image(
             draw_layer_over_image(Image_empty(operation.size), operation.layers[1]),
             operation.layers[2])

\* C17: composite returns an image of the operation's size, with rows of
\* 4 * width bytes, whose bytes are those of a zero buffer after one
\* draw_layer_over_image per layer in the order of the vector; without
\* layers every byte is zero.
C17_CompositeLayerByLayer ==
    CompositeCall =>
        /\ image.size = call.operation.size
        /\ image.bytes_per_row = 4 * call.operation.size.width
        /\ Len(image.data) = 4 * call.operation.size.width * call.operation.size.height
        /\ image = LayerByLayer(call.operation)
        /\ Len(call.operation.layers) = 0 => \A k \in 1..Len(image.data) : image.data[k] = 0

\* Two layers whose order matters: an opaque layer below a half-opaque one
\* gives an opaque pixel that is neither layer's.
C17_Witness ==
    /\ CompositeCall
    /\ Len(call.operation.layers) = 2
    /\ call.operation.size = Size(1, 1)
    /\ call.operation.layers[1].image.data = SKY
    /\ call.operation.layers[2].image.data = ORANGE
    /\ call.operation.layers[1].blend_mode = "Normal"
    /\ call.operation.layers[2].blend_mode = "Normal"
    /\ call.operation.layers[1].opacity = f32(1, 1)
    /\ call.operation.layers[2].opacity = f32(1, 1)
    /\ image.data[4] = 255
    /\ image.data # SKY

\* clamp(round(255 * v), 0, 255): the byte nearest to 255 * v, a half going
\* up, or the end of the byte range on the side where 255 * v lies.
ClampedByte(v) ==
    CHOOSE k \in 0..255 :
        \/ k = 0 /\ 510 * v.n < v.d
        \/ k = 255 /\ 510 * v.n >= 509 * v.d
        \/ (2 * k - 1) * v.d <= 510 * v.n /\ 510 * v.n < (2 * k + 1) * v.d

ToColorCall == blend.op \in {"RgbaColor::to_color", "RgbColor::to_color"}

\* C18: to_color gives each channel v the byte clamp(round(255 * v), 0, 255):
\* 255 when 255 * v is above 255, 0 when v is negative, never the low byte
\* of an integer outside the byte range.
C18_ToColorSaturates ==
    ToColorCall =>
        /\ blend.result.red = ClampedByte(blend.color.red)
        /\ blend.result.green = ClampedByte(blend.color.green)
        /\ blend.result.blue = ClampedByte(blend.color.blue)
        /\ blend.result.alpha = IF blend.op = "RgbaColor::to_color"
                                THEN ClampedByte(blend.color.alpha)
                                ELSE 255
        /\ f32_lt(f32(1, 1), blend.color.red) => blend.result.red = 255
        /\ f32_lt(blend.color.red, f32(0, 1)) => blend.result.red = 0

\* 255 * v = 256 in red and 255 * v = -510 in blue.
C18_Witness ==
    /\ blend.op = "RgbaColor::to_color"
    /\ blend.color.red = f32(256, 255)
    /\ blend.color.blue = f32(-2, 1)
    /\ blend.result.red = 255
    /\ blend.result.blue = 0

DeleteCall == call.op = "delete_pixels"

\* The mask pixel that lies on pixel p when the mask image is placed at its
\* bounding box's origin, and whether there is one.
MaskPixel(p) ==
    Point(p.x - call.mask.bounding_box.origin.x, p.y - call.mask.bounding_box.origin.y)

UnderMask(p) == MaskPixel(p) \in PixelsOf(call.mask.image)

\* Two pixels appear equal: the same four bytes, or both of alpha 0.
AppearsEqual(c, d) == c = d \/ (c[4] = 0 /\ d[4] = 0)

\* C20: delete_pixels keeps the image's size, leaves alpha 0 in every pixel
\* under a fully opaque mask pixel, and leaves every pixel that is not under
\* the mask image, or under a mask pixel of alpha 0, appearing equal to what
\* it was.
C20_DeletePixels ==
    DeleteCall =>
        /\ image.size = call.before.size
        /\ \A p \in PixelsOf(call.before) :
              /\ UnderMask(p) /\ PixelAt(call.mask.image, MaskPixel(p))[4] = 255
                    => PixelAt(image, p)[4] = 0
              /\ ~UnderMask(p) \/ PixelAt(call.mask.image, MaskPixel(p))[4] = 0
                    => AppearsEqual(PixelAt(call.before, p), PixelAt(image, p))

\* A transparent pixel with colour bytes beside a red pixel, the red pixel
\* under an opaque mask of one pixel at (1, 0): the red pixel loses its
\* alpha, the transparent pixel its colour bytes.
C20_Witness ==
    /\ DeleteCall
    /\ call.before.size = Size(2, 1)
    /\ call.before.data = GHOST \o RED
    /\ call.mask.bounding_box = Rect_new(1, 0, 1, 1)
    /\ call.mask.image.data = WHITE
    /\ image.data = ZERO \o <<255, 0, 0, 0>>

DrawOverCall == call.op = "draw_image_over"

\* The pixel of other_image that lies on pixel p of self when other_image is
\* placed at the location of the call.
SourcePixel(p) == Point(p.x - call.location.x, p.y - call.location.y)

InOverlap(p) == SourcePixel(p) \in PixelsOf(call.other_image)

\* The rectangle of other_image lies wholly beyond the right, the left, the
\* bottom or the top side of self.
OffSide ==
    \/ call.location.x >= call.before.size.width
    \/ call.location.x + call.other_image.size.width <= 0
    \/ call.location.y >= call.before.size.height
    \/ call.location.y + call.other_image.size.height <= 0

\* C21: draw_image_over(other, location) gives every pixel of self inside
\* the overlap of self's bounds and other's rectangle placed at location the
\* four bytes of other's pixel (x - location.x, y - location.y), without
\* blending; every pixel outside the overlap keeps its bytes; and self is
\* byte for byte as before when the rectangle lies wholly off one side.
C21_DrawImageOver ==
    DrawOverCall =>
        /\ image.size = call.before.size
        /\ image.bytes_per_row = call.before.bytes_per_row
        /\ \A p \in PixelsOf(call.before) :
              PixelAt(image, p) = IF InOverlap(p)
                                  THEN PixelAt(call.other_image, SourcePixel(p))
                                  ELSE PixelAt(call.before, p)
        /\ OffSide => image = call.before

\* A 2 x 2 image placed at (-1, -1) over a 2 x 2 self: pixel (0, 0) of self
\* gets the half-opaque orange of the image's pixel (1, 1), unblended, and
\* the three other pixels of self stay as they were.
C21_Witness ==
    /\ DrawOverCall
    /\ call.location = Point(-1, -1)
    /\ call.before.size = Size(2, 2)
    /\ call.other_image.size = Size(2, 2)
    /\ PixelAt(call.other_image, Point(1, 1)) = ORANGE
    /\ PixelAt(call.other_image, Point(0, 0)) = WHITE
    /\ PixelAt(call.before, Point_zero) = RED
    /\ PixelAt(image, Point_zero) = ORANGE
    /\ \E p \in PixelsOf(image) : ~InOverlap(p) /\ PixelAt(image, p) = RED

SampleCall == call.op = "pixel_color"

\* C28: pixel_color(location) returns None for every location outside the
\* image and, for a location inside it, the colour of the four bytes at
\* offset bytes_per_row * y + 4 * x; it never returns the colour of another
\* pixel.
C28_PixelColor ==
    SampleCall =>
        call.result = IF call.location \in PixelsOf(image)
                      THEN Some(Color(PixelAt(image, call.location)[1],
                                      PixelAt(image, call.location)[2],
                                      PixelAt(image, call.location)[3],
                                      PixelAt(image, call.location)[4]))
                      ELSE None

\* A call with a blend mode that is not Porter-Duff.
SourceOverCall == DrawCall /\ call.layer.blend_mode \notin {"DestinationIn", "DestinationOut"}

\* round(255 * (As + Ab * (1 - As))) with As = opacity * b / 255 and
\* Ab = a / 255, for a base alpha byte a and a blend alpha byte b.
SourceOverAlpha(a, b, opacity) ==
    RoundDiv(255 * opacity.n * b + a * (255 * opacity.d - opacity.n * b),
             255 * opacity.d)

\* C25: under every blend mode other than DestinationIn and DestinationOut,
\* a target pixel under a layer pixel, the two not both fully transparent,
\* gets the alpha byte round(255 * (As + Ab * (1 - As))), As being
\* opacity * blendAlpha / 255 and Ab baseAlpha / 255, whatever the mode and
\* the colour bytes; a fully opaque base pixel stays fully opaque.
C25_SourceOverAlpha ==
    SourceOverCall =>
        \A p \in PixelsOf(call.before) :
            Covered(p) /\ ~(PixelAt(call.before, p)[4] = 0
                            /\ PixelAt(call.layer.image, LayerPixel(p))[4] = 0) =>
                /\ PixelAt(image, p)[4] =
                       SourceOverAlpha(PixelAt(call.before, p)[4],
                                       PixelAt(call.layer.image, LayerPixel(p))[4],
                                       call.layer.opacity)
                /\ PixelAt(call.before, p)[4] = 255 => PixelAt(image, p)[4] = 255

\* A half-opaque layer pixel at opacity 1/2 multiplied onto a half-opaque
\* base pixel: As = 64/255, Ab = 128/255 and the alpha becomes 160.
C25_Witness ==
    /\ SourceOverCall
    /\ call.layer.blend_mode = "Multiply"
    /\ call.layer.opacity = f32(1, 2)
    /\ Covered(Point_zero)
    /\ PixelAt(call.before, Point_zero)[4] = 128
    /\ PixelAt(call.layer.image, LayerPixel(Point_zero))[4] = 128
    /\ PixelAt(image, Point_zero)[4] = 160

\* The bytes of a colour.
BytesOf(c) == <<c.red, c.green, c.blue, c.alpha>>

\* The colour of pixel p of an image.
ColorOf(img, p) ==
    Color(PixelAt(img, p)[1], PixelAt(img, p)[2], PixelAt(img, p)[3], PixelAt(img, p)[4])

\* C26: draw_layer_over_image with the rounded position (px, py) changes
\* target pixel (tx, ty) only if (tx - px, ty - py) is a pixel of the layer
\* image, and the pixel's new value is that of blend_colors on the old
\* target pixel, the layer pixel (tx - px, ty - py), the blend mode and the
\* opacity: no other pixel, row or column of either buffer enters it.  The
\* size and the row length of the target stay as they were.
C26_PixelLocal ==
    DrawCall =>
        /\ image.size = call.before.size
        /\ image.bytes_per_row = call.before.bytes_per_row
        /\ Len(image.data) = Len(call.before.data)
        /\ \A p \in PixelsOf(call.before) :
              PixelAt(image, p) =
                  IF Covered(p)
                  THEN BytesOf(blend_colors(ColorOf(call.before, p),
                                            ColorOf(call.layer.image, LayerPixel(p)),
                                            call.layer.blend_mode, call.layer.opacity))
                  ELSE PixelAt(call.before, p)

\* A layer of two pixels, orange and white, at x = -1/2, which rounds to
\* -1, multiplied at opacity 1/2 onto a target of two pixels: the first
\* target pixel is blended with the white layer pixel and changes, the
\* second is under no layer pixel and keeps its bytes.
C26_Witness ==
    /\ DrawCall
    /\ call.layer.position = Point(f32(-1, 2), f32(0, 1))
    /\ call.layer.blend_mode = "Multiply"
    /\ call.layer.opacity = f32(1, 2)
    /\ call.before.size = Size(2, 1)
    /\ call.layer.image.size = Size(2, 1)
    /\ PixelAt(call.layer.image, Point(0, 0)) = ORANGE
    /\ PixelAt(call.layer.image, Point(1, 0)) = WHITE
    /\ LayerPixel(Point_zero) = Point(1, 0)
    /\ PixelAt(call.before, Point_zero) = HALF
    /\ PixelAt(image, Point_zero) # HALF
    /\ ~Covered(Point(1, 0))
    /\ PixelAt(image, Point(1, 0)) = PixelAt(call.before, Point(1, 0))

\* A call with a layer of opacity 0 and a blend mode that is not
\* Porter-Duff.
FadedCall == SourceOverCall /\ call.layer.opacity = f32(0, 1)

\* C29: a layer with opacity 0 and a blend mode other than DestinationIn
\* and DestinationOut has no effect: draw_layer_over_image leaves every
\* target pixel byte for byte as it was, for every base pixel, the fully
\* transparent ones with colour bytes that are not zero included, and every
\* layer pixel.
C29_OpacityZeroNoEffect == FadedCall => image = call.before

\* The operation with the other value of should_premultiply.
Flipped(operation) ==
    [operation EXCEPT !.should_premultiply = ~operation.should_premultiply]

SaturationCall == blend.op = "set_saturation"

\* The byte k of a channel k / 255.
ByteOf(v) == (v.n * 255) \div v.d

ChannelBytes(c) == {ByteOf(c.red), ByteOf(c.green), ByteOf(c.blue)}

\* What the claim gives a channel of byte k in a colour whose largest byte
\* is hi and whose smallest is lo < hi, for the saturation s.
Saturated(k, hi, lo, s) ==
    IF k = hi
    THEN s
    ELSE IF k = lo
    THEN f32(0, 1)
    ELSE f32((k - lo) * s.n, (hi - lo) * s.d)

PixelOfStore(byte_index) ==
    Point((byte_index % call.before.bytes_per_row) \div 4,
          byte_index \div call.before.bytes_per_row)

\* The pixels whose bytes the call stored to, in either image.
StoredPixels == {PixelOfStore(call.stores[k]) : k \in 1..Len(call.stores)}

\* The pixels of the secondary image that differ from what they were.
ChangedSecondaryPixels ==
    IF call.before_secondary.some /\ secondary.some
    THEN ChangedPixels(call.before_secondary.value, secondary.value)
    ELSE {}

\* C22: when flood_fill_in_bounds returns Ok, every pixel (x, y) it modified,
\* in the primary and in the secondary image, lies in the bounding box
\* clamped to the image, min_x <= x < max_x and min_y <= y < max_y, and no
\* pixel outside the clamped box is written.
C22_WritesInsideBox ==
    call.op = "flood_fill_in_bounds" /\ call.status = "Ok" =>
        /\ ChangedPixels(call.before, image) \subseteq ClampedPixels
        /\ ChangedSecondaryPixels \subseteq ClampedPixels
        /\ StoredPixels \subseteq ClampedPixels

\* The call has passed the checks and is in the loop over the seed stack.
Running == call.op = "flood_fill_in_bounds" /\ call.status = "Running"

\* The call has returned Ok, its seed stack empty.
Returned ==
    /\ call.op = "flood_fill_in_bounds"
    /\ call.status = "Ok"
    /\ call.st.points = <<>>

\* No byte offset was stored to twice.
StoredOnce ==
    \A j, k \in 1..Len(call.st.stores) :
        call.st.stores[j] = call.st.stores[k] => j = k

\* C23: flood fill terminates on every input that the checks accept: the
\* seed stack of flood_fill_in_bounds eventually becomes empty and the
\* function returns, and no pixel is overwritten more than once.
C23_FillTerminates ==
    /\ [](call.op = "flood_fill_in_bounds" => StoredOnce)
    /\ Running ~> Returned

\* A call of flood_fill_with_mask with a fill colour that is not fully
\* transparent.
MaskedFill == call.op = "flood_fill_with_mask" /\ call.fill_color.alpha # 0

\* Pixel p lies in the bounding box of the mask.
InMaskBox(p) ==
    /\ min_x(call.mask.bounding_box) <= p.x /\ p.x < max_x(call.mask.bounding_box)
    /\ min_y(call.mask.bounding_box) <= p.y /\ p.y < max_y(call.mask.bounding_box)

\* C24: after flood_fill_with_mask with a fill colour of non-zero alpha,
\* every pixel outside the mask's bounding box has the bytes it had, and a
\* pixel inside the bounding box differs from what it was only if the fill
\* recoloured it and the mask's alpha at that pixel is not zero; when the
\* call returns an error the image is as it was.
C24_MaskedFillFrame ==
    MaskedFill =>
        /\ call.status = "Err" => image = call.before
        /\ \A p \in ChangedPixels(call.before, image) :
              /\ InMaskBox(p)
              /\ p \in StoredPixels
              /\ MaskCovers(p)

====
